---- MODULE Spec2Model ----
(***************************************************************************)
(* House designer: the HouseGenerator service (parsePlotSize,              *)
(* calculateHouseDimensions, generateRooms, addFurniture,                  *)
(* generateTourWaypoints, generateHouse) and the POST routes that call it. *)
(*                                                                         *)
(* Numbers are exact rationals [n, d] (d > 0, lowest terms); IEEE-754      *)
(* rounding of the JavaScript doubles is not modelled.  Strings that the   *)
(* code inspects character by character (the plot size) are sequences of   *)
(* one-character strings.                                                  *)
(***************************************************************************)
EXTENDS Integers, Sequences, FiniteSets, TLC

VARIABLES
    entry,            \* which operation was invoked
    pc,               \* position inside the invoked operation
    body,             \* JSON body of the POST request (routes only)
    formData,         \* HouseFormData handed to generateHouse
    plotSize,         \* const plotSize of generateHouse
    houseDimensions,  \* const houseDimensions of generateHouse
    rooms,            \* const rooms of generateHouse
    furnishedRooms,   \* const furnishedRooms of generateHouse
    tourWaypoints,    \* const tourWaypoints of generateHouse / the route
    result,           \* value returned (or error thrown) by generateHouse
    response,         \* NextResponse of the route / outcome of the page's fetch
    page,             \* useState values of HomePage
    viewer            \* useState values of House3DViewer and what is rendered of them

vars == <<entry, pc, body, formData, plotSize, houseDimensions, rooms,
          furnishedRooms, tourWaypoints, result, response, page, viewer>>

(***************************************************************************)
(* Bounds of the model.                                                    *)
(***************************************************************************)
MaxLen == 4        \* longest plot-size string enumerated by SpecParse
MaxBedrooms == 3   \* largest bedroom count of a direct generateHouse call
MaxBathrooms == 2  \* largest bathroom count of a direct generateHouse call
MaxKitchens == 2   \* largest kitchen count of a direct generateHouse call
MaxRooms == 3      \* longest room list handed directly to generateTourWaypoints
MaxGridBedrooms == 10  \* largest bedroom count SpecRooms places
MaxGridBathrooms == 5  \* largest bathroom count SpecRooms places
MaxGridKitchens == 3   \* largest kitchen count SpecRooms places

Null == [null |-> TRUE]   \* a variable that holds nothing yet
NaN == [n |-> 0, d |-> 0] \* the double NaN

\* JSON / JavaScript values whose type the code does not control
JStr(s) == [t |-> "string", v |-> s]
JNum(i) == [t |-> "number", v |-> i]
JUndef == [t |-> "undefined"]
IsString(j) == j.t = "string"

\* F(e) with e evaluated once: the value of a const declaration
Const(e, F(_)) == CHOOSE r \in {F(v) : v \in {e}} : TRUE
Const2(e1, e2, F(_, _)) == CHOOSE r \in {F(v, w) : v \in {e1}, w \in {e2}} : TRUE

(***************************************************************************)
(* Numbers.                                                                *)
(***************************************************************************)
Abs(i) == IF i < 0 THEN -i ELSE i

RECURSIVE Gcd(_, _)
Gcd(a, b) == Const2(a, b, LAMBDA x, y : IF y = 0 THEN x ELSE Gcd(y, x % y))

\* The rational n/d in lowest terms with a positive denominator.
Rat(n, d) ==
    Const2(n, d, LAMBDA p, q :
        Const(Gcd(Abs(p), Abs(q)), LAMBDA g :
            IF q < 0 THEN [n |-> (-p) \div g, d |-> (-q) \div g]
            ELSE [n |-> p \div g, d |-> q \div g]))

R(i) == [n |-> i, d |-> 1]
IsNum(v) == v.d # 0
RAdd(a, b) == Const2(a, b, LAMBDA x, y : Rat(x.n * y.d + y.n * x.d, x.d * y.d))
RMul(a, b) == Const2(a, b, LAMBDA x, y : Rat(x.n * y.n, x.d * y.d))
RDivInt(a, k) == Const(a, LAMBDA x : Rat(x.n, x.d * k))
RLe(a, b) == Const2(a, b, LAMBDA x, y : x.n * y.d <= y.n * x.d)
RLt(a, b) == Const2(a, b, LAMBDA x, y : x.n * y.d < y.n * x.d)
RGt(a, b) == RLt(b, a)
\* Math.min on two numbers, neither of them NaN
RMin(a, b) == Const2(a, b, LAMBDA x, y : IF RLe(x, y) THEN x ELSE y)
\* truthiness of a JS number: NaN, 0 and -0 are falsy
Truthy(v) == IsNum(v) /\ v.n # 0
\* the JS expression  v || dflt  on numbers
OrElse(v, dflt) == IF Truthy(v) THEN v ELSE dflt

RECURSIVE Pow10(_)
Pow10(k) == IF k = 0 THEN 1 ELSE 10 * Pow10(k - 1)

\* Math.ceil(Math.sqrt(k)) for an integer k >= 0
RECURSIVE CeilSqrtFrom(_, _)
CeilSqrtFrom(k, r) == IF r * r >= k THEN r ELSE CeilSqrtFrom(k, r + 1)
CeilSqrt(k) == CeilSqrtFrom(k, 0)

Max(a, b) == IF a >= b THEN a ELSE b

(***************************************************************************)
(* Strings as sequences of characters.                                     *)
(***************************************************************************)
Digits == {"0", "1", "2", "3", "4", "5", "6", "7", "8", "9"}
DigitVal(c) ==
    CASE c = "0" -> 0 [] c = "1" -> 1 [] c = "2" -> 2 [] c = "3" -> 3
      [] c = "4" -> 4 [] c = "5" -> 5 [] c = "6" -> 6 [] c = "7" -> 7
      [] c = "8" -> 8 [] c = "9" -> 9

\* characters of the plot-size strings SpecParse enumerates (no exponent
\* letter, so every numeric literal is a plain decimal)
Alphabet == {"0", "2", "3", "x", "X", " ", ".", "a", "-"}

Str(k) == UNION {[1..m -> Alphabet] : m \in 0..k}

LowerChar(c) == CASE c = "X" -> "x" [] c = "A" -> "a" [] OTHER -> c
\* String.prototype.toLowerCase
toLowerCase(s) == [i \in 1..Len(s) |-> LowerChar(s[i])]

IsSpace(c) == c = " "
\* s.replace(/\s/g, '')
stripWhitespace(s) == SelectSeq(s, LAMBDA c : ~IsSpace(c))
\* String.prototype.trim
RECURSIVE trim(_)
trim(s) ==
    IF s = <<>> THEN s
    ELSE IF IsSpace(Head(s)) THEN trim(Tail(s))
    ELSE IF IsSpace(s[Len(s)]) THEN trim(SubSeq(s, 1, Len(s) - 1))
    ELSE s

\* s.includes(c)
includes(s, c) == \E i \in 1..Len(s) : s[i] = c

\* s.split(c): the pieces between the occurrences of c
RECURSIVE split(_, _)
split(str, c) ==
    Const(str, LAMBDA s :
        IF ~includes(s, c) THEN <<s>>
        ELSE Const(CHOOSE j \in 1..Len(s) : s[j] = c /\ \A k \in 1..(j - 1) : s[k] # c,
                   LAMBDA i : <<SubSeq(s, 1, i - 1)>> \o split(SubSeq(s, i + 1, Len(s)), c)))

\* length of the longest prefix of s made of digits
RECURSIVE DigitRun(_)
DigitRun(s) ==
    IF s # <<>> /\ Head(s) \in Digits THEN 1 + DigitRun(Tail(s)) ELSE 0

RECURSIVE DigitsValue(_)
DigitsValue(s) ==
    IF s = <<>> THEN 0
    ELSE 10 * DigitsValue(SubSeq(s, 1, Len(s) - 1)) + DigitVal(s[Len(s)])

\* parseFloat on a string without whitespace, exponent or "Infinity":
\* the longest prefix  [+-]? (digits ('.' digits?)? | '.' digits)  as a
\* number, NaN when there is no such prefix.
parseFloat(str) ==
    Const(str, LAMBDA s :
    LET signed == s # <<>> /\ Head(s) \in {"-", "+"}
        sign == IF signed /\ Head(s) = "-" THEN -1 ELSE 1
        u == IF signed THEN Tail(s) ELSE s
        ni == DigitRun(u)
        afterInt == SubSeq(u, ni + 1, Len(u))
        hasDot == afterInt # <<>> /\ Head(afterInt) = "."
        nf == IF hasDot THEN DigitRun(Tail(afterInt)) ELSE 0
        intPart == DigitsValue(SubSeq(u, 1, ni))
        fracPart == IF nf = 0 THEN 0 ELSE DigitsValue(SubSeq(afterInt, 2, nf + 1))
    IN  IF ni = 0 /\ nf = 0 THEN NaN
        ELSE Rat(sign * (intPart * Pow10(nf) + fracPart), Pow10(nf)))

\* parseInt on a JSON value of the body: an integer number stays, an absent
\* field gives NaN (the bodies of the model hold no other count).
parseInt(j) == IF j.t = "number" THEN R(j.v) ELSE NaN

(***************************************************************************)
(* HouseGenerator.parsePlotSize                                            *)
(***************************************************************************)
DefaultPlot == [width |-> R(20), length |-> R(30)]

\* parsePlotSize without the toLowerCase() call
parsePlotSizeCaseSensitive(raw) ==
    Const(stripWhitespace(raw), LAMBDA size :
        IF includes(size, "x")
        THEN Const(split(size, "x"), LAMBDA parts :
             Const2(parseFloat(parts[1]), parseFloat(parts[2]), LAMBDA width, length :
                 [width |-> OrElse(width, R(20)), length |-> OrElse(length, R(30))]))
        ELSE Const(parseFloat(size), LAMBDA numericSize :
                 IF IsNum(numericSize)
                 THEN [width |-> numericSize, length |-> numericSize]
                 ELSE DefaultPlot))

\* parsePlotSize with the fallbacks of the two sides exchanged
parsePlotSizeSwappedDefaults(raw) ==
    Const(stripWhitespace(toLowerCase(raw)), LAMBDA size :
        IF includes(size, "x")
        THEN Const(split(size, "x"), LAMBDA parts :
             Const2(parseFloat(parts[1]), parseFloat(parts[2]), LAMBDA width, length :
                 [width |-> OrElse(width, R(30)), length |-> OrElse(length, R(20))]))
        ELSE Const(parseFloat(size), LAMBDA numericSize :
                 IF IsNum(numericSize)
                 THEN [width |-> numericSize, length |-> numericSize]
                 ELSE DefaultPlot))

parsePlotSize(raw) ==
    Const(stripWhitespace(toLowerCase(raw)), LAMBDA size :
        IF includes(size, "x")
        THEN Const(split(size, "x"), LAMBDA parts :
             Const2(parseFloat(parts[1]), parseFloat(parts[2]), LAMBDA width, length :
                 [width |-> OrElse(width, R(20)), length |-> OrElse(length, R(30))]))
        ELSE Const(parseFloat(size), LAMBDA numericSize :
                 IF IsNum(numericSize)
                 THEN [width |-> numericSize, length |-> numericSize]
                 ELSE DefaultPlot))

(***************************************************************************)
(* HouseGenerator.calculateHouseDimensions                                 *)
(***************************************************************************)
ROOM_HEIGHT == 3

\* k/100 as a number: the decimal literals of the source (0.8 is Dec(80))
Dec(k) == Rat(k, 100)

\* calculateHouseDimensions with the width maximum used for both axes
calculateHouseDimensionsOneCap(plot, fd) ==
    [width |-> RMin(RMul(plot.width, Dec(80)), R(25)),
     length |-> RMin(RMul(plot.length, Dec(80)), R(25)),
     height |-> R(IF fd.houseType = "single" THEN ROOM_HEIGHT ELSE ROOM_HEIGHT * 2)]

calculateHouseDimensions(plot, fd) ==
    LET houseWidth == RMin(RMul(plot.width, Dec(80)), R(25))
        houseLength == RMin(RMul(plot.length, Dec(80)), R(35))
        floorHeight == ROOM_HEIGHT
        totalHeight == IF fd.houseType = "single" THEN floorHeight ELSE floorHeight * 2
    IN  [width |-> houseWidth, length |-> houseLength, height |-> R(totalHeight)]

(***************************************************************************)
(* HouseGenerator.generateRooms                                            *)
(***************************************************************************)
\* the room literal with a fixed id suffix instead of the loop index
RoomFixedId(id, name, type, x, z, w, l) ==
    [id |-> type \o "-1", name |-> name, type |-> type,
     position |-> [x |-> x, y |-> R(0), z |-> z],
     dimensions |-> [width |-> w, length |-> l, height |-> R(ROOM_HEIGHT)],
     furniture |-> <<>>]

Room(id, name, type, x, z, w, l) ==
    [id |-> id, name |-> name, type |-> type,
     position |-> [x |-> x, y |-> R(0), z |-> z],
     dimensions |-> [width |-> w, length |-> l, height |-> R(ROOM_HEIGHT)],
     furniture |-> <<>>]

\* the grid with the square root rounded down
gridSizeRoundedDown(bedrooms) ==
    Max(2, IF CeilSqrt(bedrooms + 2) * CeilSqrt(bedrooms + 2) = bedrooms + 2
           THEN CeilSqrt(bedrooms + 2) ELSE CeilSqrt(bedrooms + 2) - 1)

\* Math.max(2, Math.ceil(Math.sqrt(bedrooms + 2)))
gridSize(bedrooms) == Max(2, CeilSqrt(bedrooms + 2))

\* for (i = 0; i < count; i++) push a kitchen at the cursor, currentX += roomWidth
RECURSIVE kitchenLoop(_, _, _, _, _)
kitchenLoop(i, count, cursor, rw, rl) ==
    Const(cursor, LAMBDA cur :
        IF i >= count THEN cur
        ELSE kitchenLoop(i + 1, count,
                [rooms |-> Append(cur.rooms,
                            Room("kitchen-" \o ToString(i + 1), "Kitchen " \o ToString(i + 1),
                                 "kitchen", cur.x, cur.z, rw, rl)),
                 x |-> RAdd(cur.x, rw), z |-> cur.z],
                rw, rl))

\* the loops wrapping only once the cursor itself has passed the house width
RECURSIVE wrapLoopLateWrap(_, _, _, _, _, _, _, _, _)
wrapLoopLateWrap(type, label, scale, i, count, cursor, rw, rl, houseWidth) ==
    Const(cursor, LAMBDA cur :
        IF i >= count THEN cur
        ELSE LET wrap == RGt(cur.x, houseWidth)
                 x == IF wrap THEN R(0) ELSE cur.x
                 z == IF wrap THEN RAdd(cur.z, rl) ELSE cur.z
             IN  wrapLoopLateWrap(type, label, scale, i + 1, count,
                    [rooms |-> Append(cur.rooms,
                                Room(type \o "-" \o ToString(i + 1),
                                     label \o " " \o ToString(i + 1),
                                     type, x, z, RMul(rw, scale), RMul(rl, scale))),
                     x |-> RAdd(x, rw), z |-> z],
                    rw, rl, houseWidth))

\* the bedroom loop and the bathroom loop: wrap to the next row when the
\* next unit would pass the house width, push the room, currentX += roomWidth
RECURSIVE wrapLoop(_, _, _, _, _, _, _, _, _)
wrapLoop(type, label, scale, i, count, cursor, rw, rl, houseWidth) ==
    Const(cursor, LAMBDA cur :
        IF i >= count THEN cur
        ELSE LET wrap == RGt(RAdd(cur.x, rw), houseWidth)
                 x == IF wrap THEN R(0) ELSE cur.x
                 z == IF wrap THEN RAdd(cur.z, rl) ELSE cur.z
             IN  wrapLoop(type, label, scale, i + 1, count,
                    [rooms |-> Append(cur.rooms,
                                Room(type \o "-" \o ToString(i + 1),
                                     label \o " " \o ToString(i + 1),
                                     type, x, z, RMul(rw, scale), RMul(rl, scale))),
                     x |-> RAdd(x, rw), z |-> z],
                    rw, rl, houseWidth))

\* the placement with the bathroom loop ahead of the bedroom loop
roomsFromBathroomsFirst(fd, dims, roomWidth, roomLength) ==
    LET living == [rooms |-> <<Room("living-1", "Living Room", "living", R(0), R(0),
                                    RMul(roomWidth, Dec(150)), RMul(roomLength, Dec(150)))>>,
                   x |-> RAdd(R(0), RMul(roomWidth, Dec(150))), z |-> R(0)]
    IN
    Const(kitchenLoop(0, fd.kitchens, living, roomWidth, roomLength), LAMBDA kitchens :
    Const(IF RLe(RAdd(kitchens.x, roomWidth), dims.width)
          THEN [rooms |-> Append(kitchens.rooms,
                            Room("dining-1", "Dining Room", "dining",
                                 kitchens.x, kitchens.z, roomWidth, roomLength)),
                x |-> RAdd(kitchens.x, roomWidth), z |-> kitchens.z]
          ELSE kitchens, LAMBDA dining :
    Const([rooms |-> dining.rooms, x |-> R(0),
           z |-> RAdd(dining.z, RMul(roomLength, Dec(150)))], LAMBDA nextRow :
    Const(wrapLoop("bathroom", "Bathroom", Dec(80), 0, fd.bathrooms, nextRow,
                   roomWidth, roomLength, dims.width), LAMBDA bathrooms :
    Const(wrapLoop("bedroom", "Bedroom", R(1), 0, fd.bedrooms, bathrooms,
                   roomWidth, roomLength, dims.width), LAMBDA bedrooms :
        Append(bedrooms.rooms,
               Room("hallway-1", "Hallway", "hallway", R(0), R(-2), dims.width, R(2))))))))

\* the placement with the dining room tested against the house length
roomsFromDiningByLength(fd, dims, roomWidth, roomLength) ==
    LET living == [rooms |-> <<Room("living-1", "Living Room", "living", R(0), R(0),
                                    RMul(roomWidth, Dec(150)), RMul(roomLength, Dec(150)))>>,
                   x |-> RAdd(R(0), RMul(roomWidth, Dec(150))), z |-> R(0)]
    IN
    Const(kitchenLoop(0, fd.kitchens, living, roomWidth, roomLength), LAMBDA kitchens :
    Const(IF RLe(RAdd(kitchens.x, roomWidth), dims.length)
          THEN [rooms |-> Append(kitchens.rooms,
                            Room("dining-1", "Dining Room", "dining",
                                 kitchens.x, kitchens.z, roomWidth, roomLength)),
                x |-> RAdd(kitchens.x, roomWidth), z |-> kitchens.z]
          ELSE kitchens, LAMBDA dining :
    Const([rooms |-> dining.rooms, x |-> R(0),
           z |-> RAdd(dining.z, RMul(roomLength, Dec(150)))], LAMBDA nextRow :
    Const(wrapLoop("bedroom", "Bedroom", R(1), 0, fd.bedrooms, nextRow,
                   roomWidth, roomLength, dims.width), LAMBDA bedrooms :
    Const(wrapLoop("bathroom", "Bathroom", Dec(80), 0, fd.bathrooms, bedrooms,
                   roomWidth, roomLength, dims.width), LAMBDA bathrooms :
        Append(bathrooms.rooms,
               Room("hallway-1", "Hallway", "hallway", R(0), R(-2), dims.width, R(2))))))))

\* the placement with the cursor moved to a new row before the bathrooms
roomsFromBathroomsFreshRow(fd, dims, roomWidth, roomLength) ==
    LET living == [rooms |-> <<Room("living-1", "Living Room", "living", R(0), R(0),
                                    RMul(roomWidth, Dec(150)), RMul(roomLength, Dec(150)))>>,
                   x |-> RAdd(R(0), RMul(roomWidth, Dec(150))), z |-> R(0)]
    IN
    Const(kitchenLoop(0, fd.kitchens, living, roomWidth, roomLength), LAMBDA kitchens :
    Const(IF RLe(RAdd(kitchens.x, roomWidth), dims.width)
          THEN [rooms |-> Append(kitchens.rooms,
                            Room("dining-1", "Dining Room", "dining",
                                 kitchens.x, kitchens.z, roomWidth, roomLength)),
                x |-> RAdd(kitchens.x, roomWidth), z |-> kitchens.z]
          ELSE kitchens, LAMBDA dining :
    Const([rooms |-> dining.rooms, x |-> R(0),
           z |-> RAdd(dining.z, RMul(roomLength, Dec(150)))], LAMBDA nextRow :
    Const(wrapLoop("bedroom", "Bedroom", R(1), 0, fd.bedrooms, nextRow,
                   roomWidth, roomLength, dims.width), LAMBDA bedrooms :
    Const(wrapLoop("bathroom", "Bathroom", Dec(80), 0, fd.bathrooms,
                   [rooms |-> bedrooms.rooms, x |-> R(0), z |-> RAdd(bedrooms.z, roomLength)],
                   roomWidth, roomLength, dims.width), LAMBDA bathrooms :
        Append(bathrooms.rooms,
               Room("hallway-1", "Hallway", "hallway", R(0), R(-2), dims.width, R(2))))))))

\* the placement with the second row one unit length below the first
roomsFromNextRowOneUnit(fd, dims, roomWidth, roomLength) ==
    LET living == [rooms |-> <<Room("living-1", "Living Room", "living", R(0), R(0),
                                    RMul(roomWidth, Dec(150)), RMul(roomLength, Dec(150)))>>,
                   x |-> RAdd(R(0), RMul(roomWidth, Dec(150))), z |-> R(0)]
    IN
    Const(kitchenLoop(0, fd.kitchens, living, roomWidth, roomLength), LAMBDA kitchens :
    Const(IF RLe(RAdd(kitchens.x, roomWidth), dims.width)
          THEN [rooms |-> Append(kitchens.rooms,
                            Room("dining-1", "Dining Room", "dining",
                                 kitchens.x, kitchens.z, roomWidth, roomLength)),
                x |-> RAdd(kitchens.x, roomWidth), z |-> kitchens.z]
          ELSE kitchens, LAMBDA dining :
    Const([rooms |-> dining.rooms, x |-> R(0),
           z |-> RAdd(dining.z, roomLength)], LAMBDA nextRow :
    Const(wrapLoop("bedroom", "Bedroom", R(1), 0, fd.bedrooms, nextRow,
                   roomWidth, roomLength, dims.width), LAMBDA bedrooms :
    Const(wrapLoop("bathroom", "Bathroom", Dec(80), 0, fd.bathrooms, bedrooms,
                   roomWidth, roomLength, dims.width), LAMBDA bathrooms :
        Append(bathrooms.rooms,
               Room("hallway-1", "Hallway", "hallway", R(0), R(-2), dims.width, R(2))))))))

roomsFrom(fd, dims, roomWidth, roomLength) ==
    LET living == [rooms |-> <<Room("living-1", "Living Room", "living", R(0), R(0),
                                    RMul(roomWidth, Dec(150)), RMul(roomLength, Dec(150)))>>,
                   x |-> RAdd(R(0), RMul(roomWidth, Dec(150))), z |-> R(0)]
    IN
    Const(kitchenLoop(0, fd.kitchens, living, roomWidth, roomLength), LAMBDA kitchens :
    Const(IF RLe(RAdd(kitchens.x, roomWidth), dims.width)
          THEN [rooms |-> Append(kitchens.rooms,
                            Room("dining-1", "Dining Room", "dining",
                                 kitchens.x, kitchens.z, roomWidth, roomLength)),
                x |-> RAdd(kitchens.x, roomWidth), z |-> kitchens.z]
          ELSE kitchens, LAMBDA dining :
    Const([rooms |-> dining.rooms, x |-> R(0),
           z |-> RAdd(dining.z, RMul(roomLength, Dec(150)))], LAMBDA nextRow :
    Const(wrapLoop("bedroom", "Bedroom", R(1), 0, fd.bedrooms, nextRow,
                   roomWidth, roomLength, dims.width), LAMBDA bedrooms :
    Const(wrapLoop("bathroom", "Bathroom", Dec(80), 0, fd.bathrooms, bedrooms,
                   roomWidth, roomLength, dims.width), LAMBDA bathrooms :
        Append(bathrooms.rooms,
               Room("hallway-1", "Hallway", "hallway", R(0), R(-2), dims.width, R(2))))))))

\* generateRooms with the kitchen loop running once too often (i <= kitchens)
generateRoomsExtraKitchen(fd, dims) ==
    Const(RDivInt(dims.width, gridSize(fd.bedrooms)), LAMBDA roomWidth :
    Const(RDivInt(dims.length, gridSize(fd.bedrooms)), LAMBDA roomLength :
        roomsFrom([fd EXCEPT !.kitchens = @ + 1], dims, roomWidth, roomLength)))

\* generateRooms that always places at least one bedroom
generateRoomsMinOneBedroom(fd, dims) ==
    Const(RDivInt(dims.width, gridSize(fd.bedrooms)), LAMBDA roomWidth :
    Const(RDivInt(dims.length, gridSize(fd.bedrooms)), LAMBDA roomLength :
        roomsFrom([fd EXCEPT !.bedrooms = Max(1, @)], dims, roomWidth, roomLength)))

\* generateRooms with the grid computed from bedrooms and kitchens together
generateRoomsUnitByAllRooms(fd, dims) ==
    Const(RDivInt(dims.width, gridSize(fd.bedrooms + fd.kitchens)), LAMBDA roomWidth :
    Const(RDivInt(dims.length, gridSize(fd.bedrooms + fd.kitchens)), LAMBDA roomLength :
        roomsFrom(fd, dims, roomWidth, roomLength)))

generateRooms(fd, dims) ==
    Const(RDivInt(dims.width, gridSize(fd.bedrooms)), LAMBDA roomWidth :
    Const(RDivInt(dims.length, gridSize(fd.bedrooms)), LAMBDA roomLength :
        roomsFrom(fd, dims, roomWidth, roomLength)))

(***************************************************************************)
(* HouseGenerator.addFurniture                                             *)
(***************************************************************************)
\* one furniture literal; fx, fz are the fractions of the room's width and
\* length its position is computed from
Item(room, id, name, type, fx, fz, rotation, w, l, h) ==
    [id |-> id, name |-> name, type |-> type,
     position |-> [x |-> RMul(room.dimensions.width, fx), y |-> R(0),
                   z |-> RMul(room.dimensions.length, fz)],
     rotation |-> rotation,
     dimensions |-> [width |-> w, length |-> l, height |-> h]]

livingFurniture(room) ==
    << Item(room, "sofa-1", "Sofa", "sofa", Dec(20), Dec(30), "0", Dec(250), Dec(100), Dec(80)),
       Item(room, "coffee-table-1", "Coffee Table", "table", Dec(50), Dec(50), "0",
            Dec(120), Dec(80), Dec(50)),
       Item(room, "tv-cabinet-1", "TV Cabinet", "cabinet", Dec(80), Dec(20), "0",
            Dec(200), Dec(50), Dec(60)),
       Item(room, "armchair-1", "Armchair", "chair", Dec(70), Dec(70), "PI/4",
            Dec(80), Dec(80), Dec(90)),
       Item(room, "side-table-1", "Side Table", "table", Dec(85), Dec(75), "0",
            Dec(50), Dec(50), Dec(60)) >>

bedroomFurniture(room) ==
    << Item(room, "bed-" \o room.id, "Bed", "bed", Dec(30), Dec(40), "0",
            Dec(160), Dec(200), Dec(60)),
       Item(room, "wardrobe-" \o room.id, "Wardrobe", "cabinet", Dec(10), Dec(10), "0",
            Dec(150), Dec(60), Dec(220)),
       Item(room, "nightstand-" \o room.id, "Nightstand", "table", Dec(60), Dec(30), "0",
            Dec(50), Dec(40), Dec(70)),
       Item(room, "dresser-" \o room.id, "Dresser", "cabinet", Dec(80), Dec(70), "PI/2",
            Dec(120), Dec(50), Dec(100)) >>

\* the kitchen template with the island left out of a kitchen under 3 wide
kitchenFurnitureIslandIfWide(room) ==
    << Item(room, "counter-" \o room.id, "Kitchen Counter", "cabinet", Dec(10), Dec(20), "0",
            RMul(room.dimensions.width, Dec(80)), Dec(60), Dec(90)),
       Item(room, "stove-" \o room.id, "Stove", "appliance", Dec(30), Dec(25), "0",
            Dec(60), Dec(60), Dec(90)),
       Item(room, "fridge-" \o room.id, "Refrigerator", "appliance", Dec(80), Dec(10), "0",
            Dec(70), Dec(70), Dec(180)),
       Item(room, "sink-" \o room.id, "Kitchen Sink", "appliance", Dec(50), Dec(25), "0",
            Dec(80), Dec(50), Dec(90)) >>
    \o (IF RGt(room.dimensions.width, R(3))
        THEN << Item(room, "island-" \o room.id, "Kitchen Island", "table", Dec(50), Dec(60),
                     "0", Dec(150), Dec(100), Dec(90)) >>
        ELSE <<>>)

kitchenFurniture(room) ==
    << Item(room, "counter-" \o room.id, "Kitchen Counter", "cabinet", Dec(10), Dec(20), "0",
            RMul(room.dimensions.width, Dec(80)), Dec(60), Dec(90)),
       Item(room, "stove-" \o room.id, "Stove", "appliance", Dec(30), Dec(25), "0",
            Dec(60), Dec(60), Dec(90)),
       Item(room, "fridge-" \o room.id, "Refrigerator", "appliance", Dec(80), Dec(10), "0",
            Dec(70), Dec(70), Dec(180)),
       Item(room, "sink-" \o room.id, "Kitchen Sink", "appliance", Dec(50), Dec(25), "0",
            Dec(80), Dec(50), Dec(90)),
       Item(room, "island-" \o room.id, "Kitchen Island", "table", Dec(50), Dec(60), "0",
            Dec(150), Dec(100), Dec(90)) >>

bathroomFurniture(room) ==
    << Item(room, "toilet-" \o room.id, "Toilet", "appliance", Dec(20), Dec(20), "0",
            Dec(40), Dec(70), Dec(80)),
       Item(room, "sink-" \o room.id, "Bathroom Sink", "appliance", Dec(70), Dec(20), "0",
            Dec(60), Dec(40), Dec(80)),
       Item(room, "shower-" \o room.id, "Shower", "appliance", Dec(20), Dec(70), "0",
            Dec(90), Dec(90), Dec(200)),
       Item(room, "cabinet-" \o room.id, "Bathroom Cabinet", "cabinet", Dec(70), Dec(70), "0",
            Dec(60), Dec(30), Dec(180)) >>

diningFurniture(room) ==
    << Item(room, "dining-table-" \o room.id, "Dining Table", "table", Dec(50), Dec(50), "0",
            Dec(180), Dec(120), Dec(75)),
       Item(room, "dining-chairs-" \o room.id, "Dining Chairs", "chair", Dec(50), Dec(30), "0",
            Dec(50), Dec(50), Dec(90)) >>

\* the switch on room.type; no case for 'hallway', no default
furnitureFor(room) ==
    CASE room.type = "living" -> livingFurniture(room)
      [] room.type = "bedroom" -> bedroomFurniture(room)
      [] room.type = "kitchen" -> kitchenFurniture(room)
      [] room.type = "bathroom" -> bathroomFurniture(room)
      [] room.type = "dining" -> diningFurniture(room)
      [] OTHER -> <<>>

\* addFurniture that returns only the rooms it furnished
addFurnitureDropsUnfurnished(list, locationType) ==
    Const(list, LAMBDA rs :
        SelectSeq([i \in 1..Len(rs) |-> [rs[i] EXCEPT !.furniture = furnitureFor(rs[i])]],
                  LAMBDA r : r.furniture # <<>>))

\* rooms.map(room => ({ ...room, furniture })); locationType is not read
addFurniture(list, locationType) ==
    Const(list, LAMBDA rs :
        [i \in 1..Len(rs) |-> [rs[i] EXCEPT !.furniture = furnitureFor(rs[i])]])

(***************************************************************************)
(* HouseGenerator.generateTourWaypoints                                    *)
(***************************************************************************)
Half(a) == RDivInt(a, 2)

\* the room waypoint placed at the room's corner, looking at its centre
roomWaypointAtCorner(room) ==
    [position |-> << room.position.x, Half(room.dimensions.height), room.position.z >>,
     lookAt |-> << RAdd(room.position.x, Half(room.dimensions.width)),
                   Half(room.dimensions.height),
                   RAdd(room.position.z, Half(room.dimensions.length)) >>,
     duration |-> 2, roomName |-> room.name]

roomWaypoint(room) ==
    [position |-> << RAdd(room.position.x, Half(room.dimensions.width)),
                     Half(room.dimensions.height),
                     RAdd(room.position.z, Half(room.dimensions.length)) >>,
     lookAt |-> << RAdd(room.position.x, Half(room.dimensions.width)),
                   Half(room.dimensions.height),
                   RAdd(room.position.z, Half(room.dimensions.length)) >>,
     duration |-> 2, roomName |-> room.name]

\* rooms.forEach(room => { if (room.type !== 'hallway') waypoints.push(...) })
RECURSIVE roomWaypoints(_)
roomWaypoints(list) ==
    Const(list, LAMBDA rs :
        IF rs = <<>> THEN <<>>
        ELSE (IF Head(rs).type # "hallway" THEN <<roomWaypoint(Head(rs))>> ELSE <<>>)
             \o roomWaypoints(Tail(rs)))

\* generateTourWaypoints without the test that skips the hallway
generateTourWaypointsAllRooms(list, dimensions) ==
    Const2(list, dimensions, LAMBDA rs, dims :
        << [position |-> <<Half(dims.width), RAdd(dims.height, R(5)), R(-10)>>,
            lookAt |-> <<Half(dims.width), Half(dims.height), Half(dims.length)>>,
            duration |-> 3, roomName |-> "Exterior View"] >>
        \o [i \in 1..Len(rs) |-> roomWaypoint(rs[i])]
        \o << [position |-> <<Half(dims.width), RAdd(dims.height, R(3)), R(-8)>>,
               lookAt |-> <<Half(dims.width), Half(dims.height), Half(dims.length)>>,
               duration |-> 2, roomName |-> "Final View"] >>)

generateTourWaypoints(list, dimensions) ==
    Const2(list, dimensions, LAMBDA rs, dims :
        << [position |-> <<Half(dims.width), RAdd(dims.height, R(5)), R(-10)>>,
            lookAt |-> <<Half(dims.width), Half(dims.height), Half(dims.length)>>,
            duration |-> 3, roomName |-> "Exterior View"] >>
        \o roomWaypoints(rs)
        \o << [position |-> <<Half(dims.width), RAdd(dims.height, R(3)), R(-8)>>,
               lookAt |-> <<Half(dims.width), Half(dims.height), Half(dims.length)>>,
               duration |-> 2, roomName |-> "Final View"] >>)

(***************************************************************************)
(* HouseGenerator.generateHouse                                            *)
(***************************************************************************)
\* the error the catch block of generateHouse throws
Thrown(message) == [ok |-> FALSE, error |-> message]
Returned(value) == [ok |-> TRUE, value |-> value]

\* the returned literal with the floor count taken from the location
houseLayoutFloorsByLocation(fd, dims, furnished) ==
    [width |-> dims.width, length |-> dims.length, height |-> dims.height,
     floors |-> IF fd.locationType = "city" THEN 1 ELSE 2,
     rooms |-> furnished,
     style |-> IF fd.locationType = "city" THEN "modern" ELSE "traditional"]

\* the object literal generateHouse returns
houseLayout(fd, dims, furnished) ==
    [width |-> dims.width, length |-> dims.length, height |-> dims.height,
     floors |-> IF fd.houseType = "single" THEN 1 ELSE 2,
     rooms |-> furnished,
     style |-> IF fd.locationType = "city" THEN "modern" ELSE "traditional"]

\* generateHouse whose catch block returns what was built so far (an empty
\* default house) instead of throwing
generateHouseSwallowsError(fd) ==
    IF ~IsString(fd.plotSize)
    THEN Returned(houseLayout(fd, calculateHouseDimensions(DefaultPlot, fd), <<>>))
    ELSE Const(parsePlotSize(fd.plotSize.v), LAMBDA plot :
         Const(calculateHouseDimensions(plot, fd), LAMBDA dims :
         Const(generateRooms(fd, dims), LAMBDA rs :
         Const(addFurniture(rs, fd.locationType), LAMBDA furnished :
             Returned(houseLayout(fd, dims, furnished))))))

\* plotSize.toLowerCase() raises a TypeError unless plotSize is a string;
\* the catch block turns every error into the one generic Error
generateHouse(fd) ==
    IF ~IsString(fd.plotSize) THEN Thrown("Failed to generate house layout")
    ELSE Const(parsePlotSize(fd.plotSize.v), LAMBDA plot :
         Const(calculateHouseDimensions(plot, fd), LAMBDA dims :
         Const(generateRooms(fd, dims), LAMBDA rs :
         Const(addFurniture(rs, fd.locationType), LAMBDA furnished :
         Const(generateTourWaypoints(furnished, dims), LAMBDA waypoints :
             Returned(houseLayout(fd, dims, furnished)))))))

(***************************************************************************)
(* The routes.  A response is the JSON object sent plus its HTTP status; a *)
(* key the handler does not write is absent from the record.               *)
(***************************************************************************)
Chars(str) ==
    CASE str = "20x30" -> <<"2", "0", "x", "3", "0">>
      [] str = "25" -> <<"2", "5">>
      [] str = "garbage" -> <<"g", "a", "r", "b", "a", "g", "e">>
      [] str = "" -> <<>>
      [] str = " " -> <<" ">>
      [] str = "5x" -> <<"5", "x">>
      [] str = "100X100" -> <<"1", "0", "0", "X", "1", "0", "0">>
      [] str = "0" -> <<"0">>
      [] str = "-5" -> <<"-", "5">>
      [] str = "19" -> <<"1", "9">>
      [] str = "7.5x200" -> <<"7", ".", "5", "x", "2", "0", "0">>

\* a JS value used as a condition: '' , 0 and undefined are falsy
JTruthy(j) ==
    CASE j.t = "string" -> j.v # <<>>
      [] j.t = "number" -> j.v # 0
      [] OTHER -> FALSE

failure(status, message) == [status |-> status, success |-> FALSE, error |-> message]

\* the response of a route after a successful generation
success(value) ==
    Const(value, LAMBDA layout :
    [status |-> 200, success |-> TRUE, layout |-> layout,
     tourWaypoints |->
         generateTourWaypoints(layout.rooms,
             [width |-> layout.width, length |-> layout.length, height |-> layout.height])])

\* const formData of the validating route: the body's fields with defaults
postFormData(b) ==
    [plotSize |-> IF JTruthy(b.plotSize) THEN b.plotSize ELSE JStr(Chars("20x30")),
     houseType |-> IF b.houseType # "" THEN b.houseType ELSE "single",
     bedrooms |-> OrElse(parseInt(b.bedrooms), R(2)).n,
     bathrooms |-> OrElse(parseInt(b.bathrooms), R(1)).n,
     kitchens |-> OrElse(parseInt(b.kitchens), R(1)).n,
     locationType |-> IF b.locationType # "" THEN b.locationType ELSE "city"]

\* export async function POST of the validating route
postResponse(b) ==
    IF b.t = "invalid" THEN failure(500, "Unexpected end of JSON input")
    ELSE Const(postFormData(b), LAMBDA fd :
        IF ~IsString(fd.plotSize)
        THEN failure(500, "formData.plotSize.trim is not a function")
        ELSE IF trim(fd.plotSize.v) = <<>> THEN failure(400, "Plot size is required")
        ELSE IF fd.bedrooms < 1 \/ fd.bedrooms > 10
        THEN failure(400, "Bedrooms must be between 1 and 10")
        ELSE IF fd.bathrooms < 1 \/ fd.bathrooms > 5
        THEN failure(400, "Bathrooms must be between 1 and 5")
        ELSE IF fd.kitchens < 1 \/ fd.kitchens > 3
        THEN failure(400, "Kitchens must be between 1 and 3")
        ELSE Const(generateHouse(fd), LAMBDA generated :
                 IF ~generated.ok THEN failure(500, generated.error)
                 ELSE success(generated.value)))

\* export async function POST of the routes that hand the body to the
\* generator as it is
simplePostResponse(b) ==
    IF b.t = "invalid" THEN failure(500, "Failed to generate house")
    ELSE IF ~JTruthy(b.plotSize) \/ b.houseType = "" \/ b.locationType = ""
    THEN failure(400, "Missing required fields")
    ELSE Const(generateHouse([plotSize |-> b.plotSize, houseType |-> b.houseType,
                              bedrooms |-> b.bedrooms.v, bathrooms |-> b.bathrooms.v,
                              kitchens |-> b.kitchens.v, locationType |-> b.locationType]),
               LAMBDA generated :
                   IF ~generated.ok THEN failure(500, "Failed to generate house")
                   ELSE success(generated.value))

(***************************************************************************)
(* Inputs.                                                                 *)
(***************************************************************************)
HouseTypes == {"single", "double"}
LocationTypes == {"city", "village"}
RoomTypes == {"bedroom", "bathroom", "kitchen", "living", "dining", "hallway"}

\* plot sizes of the direct calls and of the request bodies
PlotSamples == {Chars("20x30"), Chars("25"), Chars("garbage"), Chars(""),
                Chars("5x"), Chars("100X100"), Chars("0"), Chars("-5")}

\* HouseFormData of a direct call of generateHouse; at run time plotSize may
\* hold a value that is no string
FormDatas ==
    [plotSize : {JStr(p) : p \in PlotSamples} \cup {JNum(25)},
     houseType : HouseTypes,
     bedrooms : 0..MaxBedrooms, bathrooms : 0..MaxBathrooms, kitchens : 0..MaxKitchens,
     locationType : LocationTypes]

\* HouseFormData of SpecParse: every plot-size string up to MaxLen characters
ParseFormDatas ==
    [plotSize : {JStr(p) : p \in Str(MaxLen)}, houseType : HouseTypes,
     bedrooms : {2}, bathrooms : {1}, kitchens : {1}, locationType : {"city"}]

\* HouseFormData of SpecRooms: the counts the form offers and beyond, on
\* plots of several shapes (one of width 0 and one of negative width)
GridPlotSamples == {Chars("20x30"), Chars("19"), Chars("100X100"), Chars("7.5x200"),
                    Chars("0"), Chars("-5")}
RoomFormDatas ==
    [plotSize : {JStr(p) : p \in GridPlotSamples}, houseType : HouseTypes,
     bedrooms : 0..MaxGridBedrooms, bathrooms : 0..MaxGridBathrooms,
     kitchens : 0..MaxGridKitchens, locationType : {"city"}]

\* bodies sent to the validating route
PostBodies ==
    {[t |-> "invalid"]} \cup
    [t : {"object"},
     plotSize : {JUndef, JNum(25), JStr(Chars("")), JStr(Chars(" ")),
                 JStr(Chars("20x30")), JStr(Chars("garbage"))},
     houseType : {"", "double"},
     bedrooms : {JUndef} \cup {JNum(i) : i \in {-1, 0, 1, 10, 11}},
     bathrooms : {JUndef} \cup {JNum(i) : i \in {0, 2, 5, 6}},
     kitchens : {JUndef} \cup {JNum(i) : i \in {0, 3, 4}},
     locationType : {"", "village"}]

\* bodies sent to the routes without validation of the counts
SimpleBodies ==
    {[t |-> "invalid"]} \cup
    [t : {"object"},
     plotSize : {JUndef, JNum(25), JStr(Chars("")), JStr(Chars("20x30")), JStr(Chars("5x"))},
     houseType : {"", "single", "double"},
     bedrooms : {JNum(i) : i \in 0..1}, bathrooms : {JNum(i) : i \in 0..1},
     kitchens : {JNum(i) : i \in 0..1},
     locationType : {"", "city", "village"}]

\* room lists handed directly to the public generateTourWaypoints
sampleRoom(type, i) == Room(type \o "-" \o ToString(i), type, type, R(i), R(0), R(4), R(3))
RoomLists ==
    UNION {{[i \in 1..m |-> sampleRoom(ts[i], i)] : ts \in [1..m -> RoomTypes]} : m \in 0..MaxRooms}
DimensionSamples == {calculateHouseDimensions(parsePlotSize(Chars("20x30")),
                                              [houseType |-> h]) : h \in HouseTypes}

(***************************************************************************)
(* Initial states: one invocation, its input drawn, nothing computed yet.  *)
(***************************************************************************)
Fresh ==
    /\ page = Null /\ viewer = Null
    /\ plotSize = Null
    /\ rooms = <<>>
    /\ tourWaypoints = <<>>
    /\ result = Null
    /\ response = Null

InitGenerateHouse ==
    /\ entry = "generateHouse" /\ pc = "parsePlotSize"
    /\ formData \in FormDatas
    /\ body = Null /\ houseDimensions = Null /\ furnishedRooms = <<>>
    /\ Fresh

InitTour ==
    /\ entry = "generateTourWaypoints" /\ pc = "generateTourWaypoints"
    /\ furnishedRooms \in RoomLists
    /\ houseDimensions \in DimensionSamples
    /\ body = Null /\ formData = Null
    /\ Fresh

InitPost ==
    /\ entry = "POST" /\ pc = "POST"
    /\ body \in PostBodies
    /\ formData = Null /\ houseDimensions = Null /\ furnishedRooms = <<>>
    /\ Fresh

InitSimplePost ==
    /\ entry = "simplePOST" /\ pc = "simplePOST"
    /\ body \in SimpleBodies
    /\ formData = Null /\ houseDimensions = Null /\ furnishedRooms = <<>>
    /\ Fresh

Init == InitGenerateHouse \/ InitTour \/ InitPost \/ InitSimplePost

InitParse ==
    /\ entry = "generateHouse" /\ pc = "parsePlotSize"
    /\ formData \in ParseFormDatas
    /\ body = Null /\ houseDimensions = Null /\ furnishedRooms = <<>>
    /\ Fresh

InitRooms ==
    /\ entry = "generateHouse" /\ pc = "parsePlotSize"
    /\ formData \in RoomFormDatas
    /\ body = Null /\ houseDimensions = Null /\ furnishedRooms = <<>>
    /\ Fresh

(***************************************************************************)
(* generateHouse, statement by statement.                                  *)
(***************************************************************************)
ParsePlotSize ==
    /\ pc = "parsePlotSize"
    /\ IF IsString(formData.plotSize)
       THEN /\ plotSize' = parsePlotSize(formData.plotSize.v)
            /\ pc' = "calculateHouseDimensions"
            /\ UNCHANGED result
       ELSE /\ result' = Thrown("Failed to generate house layout")
            /\ pc' = "thrown"
            /\ UNCHANGED plotSize
    /\ UNCHANGED <<page, viewer, entry, body, formData, houseDimensions, rooms, furnishedRooms,
                   tourWaypoints, response>>

CalculateHouseDimensions ==
    /\ pc = "calculateHouseDimensions"
    /\ houseDimensions' = calculateHouseDimensions(plotSize, formData)
    /\ pc' = "generateRooms"
    /\ UNCHANGED <<page, viewer, entry, body, formData, plotSize, rooms, furnishedRooms,
                   tourWaypoints, result, response>>

GenerateRooms ==
    /\ pc = "generateRooms"
    /\ rooms' = generateRooms(formData, houseDimensions)
    /\ pc' = "addFurniture"
    /\ UNCHANGED <<page, viewer, entry, body, formData, plotSize, houseDimensions, furnishedRooms,
                   tourWaypoints, result, response>>

AddFurniture ==
    /\ pc = "addFurniture"
    /\ furnishedRooms' = addFurniture(rooms, formData.locationType)
    /\ pc' = "generateTourWaypoints"
    /\ UNCHANGED <<page, viewer, entry, body, formData, plotSize, houseDimensions, rooms,
                   tourWaypoints, result, response>>

GenerateTourWaypoints ==
    /\ pc = "generateTourWaypoints"
    /\ tourWaypoints' = generateTourWaypoints(furnishedRooms, houseDimensions)
    /\ pc' = IF entry = "generateTourWaypoints" THEN "done" ELSE "return"
    /\ UNCHANGED <<page, viewer, entry, body, formData, plotSize, houseDimensions, rooms,
                   furnishedRooms, result, response>>

Return ==
    /\ pc = "return"
    /\ result' = Returned(houseLayout(formData, houseDimensions, furnishedRooms))
    /\ pc' = "done"
    /\ UNCHANGED <<page, viewer, entry, body, formData, plotSize, houseDimensions, rooms,
                   furnishedRooms, tourWaypoints, response>>

(***************************************************************************)
(* The route handlers, request to response.                                *)
(***************************************************************************)
POST ==
    /\ pc = "POST"
    /\ response' = postResponse(body)
    /\ pc' = "responded"
    /\ UNCHANGED <<page, viewer, entry, body, formData, plotSize, houseDimensions, rooms,
                   furnishedRooms, tourWaypoints, result>>

SimplePOST ==
    /\ pc = "simplePOST"
    /\ response' = simplePostResponse(body)
    /\ pc' = "responded"
    /\ UNCHANGED <<page, viewer, entry, body, formData, plotSize, houseDimensions, rooms,
                   furnishedRooms, tourWaypoints, result>>

Next ==
    \/ ParsePlotSize
    \/ CalculateHouseDimensions
    \/ GenerateRooms
    \/ AddFurniture
    \/ GenerateTourWaypoints
    \/ Return
    \/ POST
    \/ SimplePOST

Spec == Init /\ [][Next]_vars

NextParse == ParsePlotSize \/ CalculateHouseDimensions

SpecParse == InitParse /\ [][NextParse]_vars

NextRooms == ParsePlotSize \/ CalculateHouseDimensions \/ GenerateRooms \/ AddFurniture

SpecRooms == InitRooms /\ [][NextRooms]_vars

(***************************************************************************)
(* Properties of parsePlotSize and calculateHouseDimensions (SpecParse).   *)
(***************************************************************************)
\* the statement  const plotSize = this.parsePlotSize(...)  has run
Parsed == pc \in {"calculateHouseDimensions", "generateRooms"}
\* the plot-size text, lower-cased and without whitespace
Normalized == stripWhitespace(toLowerCase(formData.plotSize.v))

AllDigits(s) == \A i \in 1..Len(s) : s[i] \in Digits
\* an unsigned decimal literal: digits, digits '.' digits? or '.' digits
IsDecimal(s) ==
    \/ s # <<>> /\ AllDigits(s)
    \/ \E i \in 1..Len(s) :
          /\ s[i] = "."
          /\ AllDigits(SubSeq(s, 1, i - 1)) /\ AllDigits(SubSeq(s, i + 1, Len(s)))
          /\ Len(s) > 1
RECURSIVE Horner(_, _)
Horner(s, acc) ==
    IF s = <<>> THEN acc ELSE Horner(Tail(s), 10 * acc + DigitVal(Head(s)))
\* the number a decimal literal denotes
DecimalValue(s) ==
    LET digits == SelectSeq(s, LAMBDA c : c # ".")
        dot == IF includes(s, ".") THEN CHOOSE i \in 1..Len(s) : s[i] = "." ELSE Len(s)
    IN  Rat(Horner(digits, 0), Pow10(Len(s) - dot))
IsPositiveNumber(s) == IsDecimal(s) /\ DecimalValue(s).n > 0
\* a decimal literal with an optional sign
IsNumber(s) ==
    \/ IsDecimal(s)
    \/ s # <<>> /\ Head(s) \in {"-", "+"} /\ IsDecimal(Tail(s))
\* '<number>x<number>' or '<number>'
WellFormed(s) ==
    \/ IsNumber(s)
    \/ \E i \in 1..Len(s) :
          s[i] = "x" /\ IsNumber(SubSeq(s, 1, i - 1)) /\ IsNumber(SubSeq(s, i + 1, Len(s)))
\* the text begins with a number: an optional sign, then a digit or '.' digit
StartsWithNumber(s) ==
    LET u == IF s # <<>> /\ Head(s) \in {"-", "+"} THEN Tail(s) ELSE s
    IN  \/ Len(u) >= 1 /\ u[1] \in Digits
        \/ Len(u) >= 2 /\ u[1] = "." /\ u[2] \in Digits
\* the text before the first 'x', and the text between the first 'x' and
\* the next one (or the end)
FirstX(s) == CHOOSE i \in 1..Len(s) : s[i] = "x" /\ \A k \in 1..(i - 1) : s[k] # "x"
LeftSide(s) == SubSeq(s, 1, FirstX(s) - 1)
RightSide(s) ==
    LET rest == SubSeq(s, FirstX(s) + 1, Len(s))
    IN  IF includes(rest, "x") THEN SubSeq(rest, 1, FirstX(rest) - 1) ELSE rest

\* C1: after lower-casing and whitespace stripping, '<W>x<L>' with positive
\* numbers W and L gives {width: W, length: L}, a single positive number N
\* gives the square plot {N, N}, and text without any digit gives {20, 30}.
C1_ParsePlotSize ==
    Parsed =>
        /\ \A i \in 1..Len(Normalized) :
              ( /\ Normalized[i] = "x"
                /\ IsPositiveNumber(SubSeq(Normalized, 1, i - 1))
                /\ IsPositiveNumber(SubSeq(Normalized, i + 1, Len(Normalized))) )
              => plotSize = [width |-> DecimalValue(SubSeq(Normalized, 1, i - 1)),
                             length |-> DecimalValue(SubSeq(Normalized, i + 1, Len(Normalized)))]
        /\ IsPositiveNumber(Normalized)
              => plotSize = [width |-> DecimalValue(Normalized),
                             length |-> DecimalValue(Normalized)]
        /\ (\A i \in 1..Len(Normalized) : Normalized[i] \notin Digits)
              => plotSize = [width |-> R(20), length |-> R(30)]

\* the text "2 X3" parsed to width 2, length 3
C1_Witness ==
    /\ Parsed
    /\ formData.plotSize.v = <<"2", " ", "X", "3">>
    /\ plotSize = [width |-> R(2), length |-> R(3)]

C3_Footprint ==
    pc = "generateRooms" =>
        LET w == RMul(plotSize.width, Rat(4, 5))
            l == RMul(plotSize.length, Rat(4, 5))
        IN  /\ houseDimensions.width = (IF RLe(w, R(25)) THEN w ELSE R(25))
            /\ houseDimensions.length = (IF RLe(l, R(35)) THEN l ELSE R(35))
            /\ houseDimensions.width.n <= 25 * houseDimensions.width.d
            /\ houseDimensions.length.n <= 35 * houseDimensions.length.d

\* a 333 x 333 plot capped to 25 x 35
C3_Witness ==
    /\ pc = "generateRooms"
    /\ plotSize = [width |-> R(333), length |-> R(333)]
    /\ houseDimensions.width = R(25) /\ houseDimensions.length = R(35)

(***************************************************************************)
(* Properties of the generator and the routes (Spec).                      *)
(***************************************************************************)
CountOfType(rs, type) == Cardinality({i \in 1..Len(rs) : rs[i].type = type})
DirectCall == entry = "generateHouse"
\* the statement  const rooms = this.generateRooms(...)  has run
RoomsGenerated ==
    DirectCall /\ pc \in {"addFurniture", "generateTourWaypoints", "return", "done"}

\* C4: generateRooms returns exactly 1 living room, kitchens-count kitchens,
\* 0 or 1 dining room, bedrooms-count bedrooms, bathrooms-count bathrooms and
\* 1 hallway; the list has kitchens + bedrooms + bathrooms + 2 or + 3 rooms.
C4_RoomCounts ==
    RoomsGenerated =>
        /\ CountOfType(rooms, "living") = 1
        /\ CountOfType(rooms, "kitchen") = formData.kitchens
        /\ CountOfType(rooms, "dining") \in {0, 1}
        /\ CountOfType(rooms, "bedroom") = formData.bedrooms
        /\ CountOfType(rooms, "bathroom") = formData.bathrooms
        /\ CountOfType(rooms, "hallway") = 1
        /\ \A i \in 1..Len(rooms) : rooms[i].type \in RoomTypes
        /\ Len(rooms) = formData.kitchens + formData.bedrooms + formData.bathrooms
                        + 2 + CountOfType(rooms, "dining")

\* 2 kitchens, 3 bedrooms, 1 bathroom and a dining room: 9 rooms
C4_Witness ==
    /\ RoomsGenerated
    /\ formData.kitchens = 2 /\ formData.bedrooms = 3 /\ formData.bathrooms = 1
    /\ CountOfType(rooms, "dining") = 1
    /\ Len(rooms) = 9

DistinctIds(rs) == \A i, j \in 1..Len(rs) : i # j => rs[i].id # rs[j].id
\* the layout a finished invocation handed out, if it handed one out
HandedOut ==
    IF DirectCall /\ pc = "done" THEN <<result.value>>
    ELSE IF pc = "responded" /\ response.success THEN <<response.layout>>
    ELSE <<>>

\* C5: in every layout returned by generateHouse the room ids are pairwise
\* distinct.
C5_UniqueRoomIds ==
    \A k \in 1..Len(HandedOut) : DistinctIds(HandedOut[k].rooms)

\* a returned layout with two kitchens, two bathrooms, three bedrooms and a
\* dining room
C5_Witness ==
    /\ DirectCall /\ pc = "done" /\ result.ok
    /\ CountOfType(result.value.rooms, "kitchen") = 2
    /\ CountOfType(result.value.rooms, "bathroom") = 2
    /\ CountOfType(result.value.rooms, "bedroom") = 3
    /\ CountOfType(result.value.rooms, "dining") = 1

\* the statement  generateTourWaypoints(furnishedRooms, houseDimensions)  has run
TourGenerated ==
    \/ DirectCall /\ pc \in {"return", "done"}
    \/ entry = "generateTourWaypoints" /\ pc = "done"

\* C6: generateTourWaypoints returns 2 + (number of rooms that are no
\* hallway) waypoints, the first named 'Exterior View' and the last 'Final
\* View', also when no room but hallways is given.
C6_WaypointCount ==
    TourGenerated =>
        /\ Len(tourWaypoints)
             = 2 + Cardinality({i \in 1..Len(furnishedRooms) :
                                    furnishedRooms[i].type # "hallway"})
        /\ tourWaypoints[1].roomName = "Exterior View"
        /\ tourWaypoints[Len(tourWaypoints)].roomName = "Final View"

\* a list of two hallways and nothing else toured with two waypoints
C6_Witness ==
    /\ entry = "generateTourWaypoints" /\ pc = "done"
    /\ Len(furnishedRooms) = 2
    /\ \A i \in 1..Len(furnishedRooms) : furnishedRooms[i].type = "hallway"
    /\ Len(tourWaypoints) = 2

\* C8: houseType 'single' gives floors = 1 and height = 3, 'double' gives
\* floors = 2 and height = 6; locationType 'city' gives style 'modern' and
\* 'village' gives 'traditional'.
C8_FloorsHeightStyle ==
    (DirectCall /\ pc = "done") =>
        /\ formData.houseType = "single"
              => result.value.floors = 1 /\ result.value.height = R(3)
        /\ formData.houseType = "double"
              => result.value.floors = 2 /\ result.value.height = R(6)
        /\ formData.locationType = "city" => result.value.style = "modern"
        /\ formData.locationType = "village" => result.value.style = "traditional"

\* a double-storey city house: 2 floors, height 6, modern
C8_Witness ==
    /\ DirectCall /\ pc = "done"
    /\ formData.houseType = "double" /\ formData.locationType = "city"
    /\ result.value.floors = 2 /\ result.value.height = R(6)
    /\ result.value.style = "modern"

\* C9: with bedrooms = 0 and a plot-size string generateHouse does not
\* throw; the layout holds the living room, the requested kitchens and
\* bathrooms, the hallway and no bedroom, and the tour has 2 + (rooms that
\* are no hallway) waypoints.
C9_NoBedrooms ==
    (DirectCall /\ formData.bedrooms = 0 /\ IsString(formData.plotSize)) =>
        /\ pc # "thrown"
        /\ pc = "done" =>
              /\ result.ok
              /\ CountOfType(result.value.rooms, "living") = 1
              /\ CountOfType(result.value.rooms, "kitchen") = formData.kitchens
              /\ CountOfType(result.value.rooms, "bathroom") = formData.bathrooms
              /\ CountOfType(result.value.rooms, "hallway") = 1
              /\ CountOfType(result.value.rooms, "bedroom") = 0
              /\ Len(generateTourWaypoints(result.value.rooms, houseDimensions))
                   = 2 + Len(result.value.rooms)
                       - CountOfType(result.value.rooms, "hallway")

\* a house without bedrooms, with a kitchen and two bathrooms, returned
C9_Witness ==
    /\ DirectCall /\ pc = "done" /\ result.ok
    /\ formData.bedrooms = 0 /\ formData.kitchens = 1 /\ formData.bathrooms = 2
    /\ Len(result.value.rooms) = 5

\* a layout with every part of a finished generation: the dimensions, the
\* floors, the style, and the whole furnished room list from the living
\* room to the hallway
CompleteLayout(l) ==
    /\ DOMAIN l = {"width", "length", "height", "floors", "rooms", "style"}
    /\ IsNum(l.width) /\ IsNum(l.length) /\ l.height \in {R(3), R(6)}
    /\ l.floors \in {1, 2} /\ l.style \in {"modern", "traditional"}
    /\ Len(l.rooms) >= 2
    /\ l.rooms[1].type = "living" /\ l.rooms[Len(l.rooms)].type = "hallway"
    /\ \A i \in 1..Len(l.rooms) :
          l.rooms[i].type # "hallway" => Len(l.rooms[i].furniture) >= 2

\* C10: generateHouse either returns a complete layout or throws the one
\* generic error 'Failed to generate house layout'; a route answers either
\* success with a complete layout and its waypoints, or success = false with
\* an error and neither layout nor waypoints.
C10_AllOrNothing ==
    /\ (DirectCall /\ pc = "done") =>
          result.ok /\ CompleteLayout(result.value) /\ result.value.rooms = furnishedRooms
    /\ pc = "thrown" =>
          result = [ok |-> FALSE, error |-> "Failed to generate house layout"]
    /\ pc = "responded" =>
          IF response.success
          THEN /\ DOMAIN response = {"status", "success", "layout", "tourWaypoints"}
               /\ response.status = 200
               /\ CompleteLayout(response.layout)
               /\ Len(response.tourWaypoints) = 2 + Len(response.layout.rooms) - 1
          ELSE /\ DOMAIN response = {"status", "success", "error"}
               /\ response.status \in {400, 500}

\* a request whose plot size is no string: the generator threw, and the
\* route answered with the error alone
C10_Witness ==
    /\ entry = "simplePOST" /\ pc = "responded"
    /\ body.t = "object" /\ ~IsString(body.plotSize) /\ JTruthy(body.plotSize)
    /\ response = [status |-> 500, success |-> FALSE, error |-> "Failed to generate house"]

(***************************************************************************)
(* Order of the rooms and of the tour (Spec).                              *)
(***************************************************************************)
\* the ids of a house with k kitchens, d dining rooms, b bedrooms and m
\* bathrooms, from the living room to the hallway
ExpectedIds(k, d, b, m) ==
    <<"living-1">>
    \o [i \in 1..k |-> "kitchen-" \o ToString(i)]
    \o [i \in 1..d |-> "dining-1"]
    \o [i \in 1..b |-> "bedroom-" \o ToString(i)]
    \o [i \in 1..m |-> "bathroom-" \o ToString(i)]
    \o <<"hallway-1">>
ExpectedTypes(k, d, b, m) ==
    <<"living">> \o [i \in 1..k |-> "kitchen"] \o [i \in 1..d |-> "dining"]
    \o [i \in 1..b |-> "bedroom"] \o [i \in 1..m |-> "bathroom"] \o <<"hallway">>
NonHallway(rs) == SelectSeq(rs, LAMBDA r : r.type # "hallway")

\* C11: generateRooms emits the living room, kitchens 1..k, the dining room
\* (if any), bedrooms 1..b, bathrooms 1..m and the hallway last, in this
\* order; the waypoints between 'Exterior View' and 'Final View' carry the
\* names of exactly the rooms of the list that are no hallway, in the order
\* of the list.
C11_RoomOrder ==
    /\ RoomsGenerated =>
          /\ [i \in 1..Len(rooms) |-> rooms[i].id]
               = ExpectedIds(formData.kitchens, CountOfType(rooms, "dining"),
                             formData.bedrooms, formData.bathrooms)
          /\ [i \in 1..Len(rooms) |-> rooms[i].type]
               = ExpectedTypes(formData.kitchens, CountOfType(rooms, "dining"),
                               formData.bedrooms, formData.bathrooms)
    /\ TourGenerated =>
          [i \in 1..Len(tourWaypoints) |-> tourWaypoints[i].roomName]
            = <<"Exterior View">>
              \o [i \in 1..Len(NonHallway(furnishedRooms)) |->
                     NonHallway(furnishedRooms)[i].name]
              \o <<"Final View">>

\* a toured house with two kitchens, two bedrooms and two bathrooms: the
\* tour goes from the living room to the second bathroom
C11_Witness ==
    /\ DirectCall /\ pc = "done"
    /\ formData.kitchens = 2 /\ formData.bedrooms = 2 /\ formData.bathrooms = 2
    /\ tourWaypoints[2].roomName = "Living Room"
    /\ tourWaypoints[3].roomName = "Kitchen 1"
    /\ tourWaypoints[Len(tourWaypoints) - 1].roomName = "Bathroom 2"
    /\ rooms[Len(rooms)].id = "hallway-1"

(***************************************************************************)
(* Geometry of generateRooms (SpecRooms).                                  *)
(***************************************************************************)
\* the counts the form and the validating route accept
InRanges ==
    /\ formData.bedrooms \in 1..10
    /\ formData.bathrooms \in 1..5
    /\ formData.kitchens \in 1..3
PositivePlot == plotSize.width.n > 0 /\ plotSize.length.n > 0
RightEdge(room) == RAdd(room.position.x, room.dimensions.width)
FarEdge(room) == RAdd(room.position.z, room.dimensions.length)
WithinFootprint(room, dims) ==
    /\ RLe(R(0), room.position.x) /\ RLe(RightEdge(room), dims.width)
    /\ RLe(R(0), room.position.z) /\ RLe(FarEdge(room), dims.length)
\* outside the footprint but touching its front edge z = 0
AdjacentToFootprint(room, dims) ==
    /\ RLe(R(0), room.position.x) /\ RLe(RightEdge(room), dims.width)
    /\ FarEdge(room) = R(0)

\* C12: with bedrooms in 1..10, bathrooms in 1..5, kitchens in 1..3 and a
\* positive plot, every room generateRooms emits lies within the house
\* footprint (0 <= x, x + width <= house width, 0 <= z, z + length <= house
\* length), the hallway within or directly adjacent to it.
C12_WithinFootprint ==
    (RoomsGenerated /\ InRanges /\ PositivePlot) =>
        \A i \in 1..Len(rooms) :
            \/ WithinFootprint(rooms[i], houseDimensions)
            \/ rooms[i].type = "hallway" /\ AdjacentToFootprint(rooms[i], houseDimensions)

\* n = max(2, ceil(sqrt(b + 2))): the least n >= 2 whose square reaches b + 2
GridN(b) == CHOOSE n \in 2..(b + 2) : n * n >= b + 2 /\ (n = 2 \/ (n - 1) * (n - 1) < b + 2)
\* side = (num / den) * whole / n
IsShare(side, num, den, whole, n) == RMul(side, R(den * n)) = RMul(whole, R(num))
HasUnits(room, num, den, dims, n) ==
    /\ IsShare(room.dimensions.width, num, den, dims.width, n)
    /\ IsShare(room.dimensions.length, num, den, dims.length, n)

\* C13: with n = max(2, ceil(sqrt(bedrooms + 2))), unit width = house width
\* / n and unit length = house length / n, the living room is at (0, 0, 0)
\* and measures 1.5 units each way, kitchens, dining room and bedrooms
\* measure one unit, bathrooms 0.8 unit; the unit is a function of the
\* house dimensions and the bedroom count alone.
C13_UnitSizing ==
    RoomsGenerated =>
        /\ rooms[1].type = "living"
        /\ rooms[1].position = [x |-> R(0), y |-> R(0), z |-> R(0)]
        /\ \A i \in 1..Len(rooms) :
              /\ rooms[i].type = "living"
                    => HasUnits(rooms[i], 3, 2, houseDimensions, GridN(formData.bedrooms))
              /\ rooms[i].type \in {"kitchen", "dining", "bedroom"}
                    => HasUnits(rooms[i], 1, 1, houseDimensions, GridN(formData.bedrooms))
              /\ rooms[i].type = "bathroom"
                    => HasUnits(rooms[i], 4, 5, houseDimensions, GridN(formData.bedrooms))

\* seven bedrooms on a 16 x 24 footprint: n = 3 whatever the three kitchens
\* and five bathrooms, a bedroom is 16/3 x 8 and a bathroom 64/15 x 32/5
C13_Witness ==
    /\ RoomsGenerated
    /\ formData.bedrooms = 7 /\ formData.kitchens = 3 /\ formData.bathrooms = 5
    /\ houseDimensions.width = R(16) /\ houseDimensions.length = R(24)
    /\ \E i \in 1..Len(rooms) :
          /\ rooms[i].type = "bedroom"
          /\ rooms[i].dimensions.width = Rat(16, 3) /\ rooms[i].dimensions.length = R(8)
    /\ \E i \in 1..Len(rooms) :
          /\ rooms[i].type = "bathroom"
          /\ rooms[i].dimensions.width = Rat(64, 15)
          /\ rooms[i].dimensions.length = Rat(32, 5)

\* x = (num / den) * whole / n
AtShare(x, num, den, whole, n) == RMul(x, R(den * n)) = RMul(whole, R(num))
DiningFits(k, n, houseWidth) == RLe(RMul(houseWidth, R(2 * k + 5)), RMul(houseWidth, R(2 * n)))

\* C14: the dining room is emitted if and only if (1.5 + kitchens + 1) x
\* unit width <= house width; when emitted it is in the row z = 0 with its
\* left edge on the right edge of the last kitchen (of the living room when
\* there is no kitchen).  Kitchen i is at x = (1.5 + i - 1) x unit width in
\* the row z = 0 whatever the house width.
C14_DiningRoom ==
    RoomsGenerated =>
        LET k == formData.kitchens
            n == GridN(formData.bedrooms)
        IN  /\ (CountOfType(rooms, "dining") = 1) <=> DiningFits(k, n, houseDimensions.width)
            /\ \A i \in 1..k :
                  /\ rooms[i + 1].type = "kitchen"
                  /\ AtShare(rooms[i + 1].position.x, 2 * i + 1, 2, houseDimensions.width, n)
                  /\ rooms[i + 1].position.z = R(0)
            /\ CountOfType(rooms, "dining") = 1 =>
                  /\ rooms[k + 2].type = "dining"
                  /\ rooms[k + 2].position.x = RightEdge(rooms[k + 1])
                  /\ AtShare(rooms[k + 2].position.x, 2 * k + 3, 2, houseDimensions.width, n)
                  /\ rooms[k + 2].position.z = R(0)

\* eight bedrooms and one kitchen on a 16 x 24 footprint: n = 4, the unit
\* is 4 wide, 3.5 units fit and the dining room stands at x = 10
C14_Witness ==
    /\ RoomsGenerated
    /\ formData.bedrooms = 8 /\ formData.kitchens = 1
    /\ houseDimensions.width = R(16)
    /\ rooms[3].type = "dining" /\ rooms[3].position.x = R(10)
    /\ rooms[2].type = "kitchen" /\ rooms[2].position.x = R(6)

\* the bedrooms and bathrooms of a room list, in list order
Packed(rs) == SelectSeq(rs, LAMBDA r : r.type \in {"bedroom", "bathroom"})
\* room r stands one unit right of room q, in q's row
NextInRow(r, q, dims, n) ==
    /\ RMul(r.position.x, R(n)) = RAdd(RMul(q.position.x, R(n)), dims.width)
    /\ r.position.z = q.position.z
\* room r stands at x = 0 of the row after q's
FirstOfNextRow(r, q, dims, n) ==
    /\ r.position.x = R(0)
    /\ RMul(r.position.z, R(n)) = RAdd(RMul(q.position.z, R(n)), dims.length)
\* one more unit right of the unit that starts at q's left edge passes the
\* house width: x + 2 * unit > house width
RowFull(q, dims, n) ==
    RGt(RAdd(RMul(q.position.x, R(n)), RMul(dims.width, R(2))), RMul(dims.width, R(n)))
SameRow(rs, z) == Cardinality({i \in 1..Len(rs) : rs[i].position.z = z})

\* C15: for a positive house width, each bedroom and bathroom after the
\* first stands one unit right of its predecessor unless cursor x + unit
\* width would exceed the house width, and then at x = 0 one unit length
\* further; no bedroom or bathroom extends beyond the house width, a row
\* holds at most n = max(2, ceil(sqrt(bedrooms + 2))) of them, and the
\* first of them stands at x = 0, z = 1.5 x unit length.
C15_Wrapping ==
    (RoomsGenerated /\ houseDimensions.width.n > 0) =>
        LET n == GridN(formData.bedrooms)
            packed == Packed(rooms)
        IN  /\ Len(packed) = formData.bedrooms + formData.bathrooms
            /\ Len(packed) > 0 =>
                  /\ packed[1].position.x = R(0)
                  /\ AtShare(packed[1].position.z, 3, 2, houseDimensions.length, n)
            /\ \A j \in 2..Len(packed) :
                  IF RowFull(packed[j - 1], houseDimensions, n)
                  THEN FirstOfNextRow(packed[j], packed[j - 1], houseDimensions, n)
                  ELSE NextInRow(packed[j], packed[j - 1], houseDimensions, n)
            /\ \A j \in 1..Len(packed) :
                  /\ RLe(R(0), packed[j].position.x)
                  /\ RLe(RightEdge(packed[j]), houseDimensions.width)
                  /\ SameRow(packed, packed[j].position.z) <= n

\* seven bedrooms on a 16 x 24 footprint: three to a row, bedroom-3 at
\* x = 32/3 fills the first row and bedroom-4 opens the next at z = 20
C15_Witness ==
    /\ RoomsGenerated
    /\ formData.bedrooms = 7 /\ formData.bathrooms = 2
    /\ houseDimensions.width = R(16) /\ houseDimensions.length = R(24)
    /\ \E i \in 2..Len(rooms) :
          /\ rooms[i - 1].id = "bedroom-3" /\ rooms[i].id = "bedroom-4"
          /\ rooms[i - 1].position = [x |-> Rat(32, 3), y |-> R(0), z |-> R(12)]
          /\ rooms[i].position = [x |-> R(0), y |-> R(0), z |-> R(20)]
          /\ SameRow(Packed(rooms), R(12)) = 3

\* C16: the first bathroom stands in the row of the last bedroom, one unit
\* width to its right, whenever one more unit fits within the house width,
\* and at x = 0 of the next row otherwise; each further bathroom stands a
\* full unit width (not its own 0.8 unit) right of the bathroom before it,
\* or at x = 0 of the next row when that unit does not fit.
C16_BathroomCursor ==
    (RoomsGenerated /\ formData.bedrooms >= 1 /\ formData.bathrooms >= 1) =>
        LET n == GridN(formData.bedrooms)
            b == formData.bedrooms
            packed == Packed(rooms)
        IN  /\ packed[b].type = "bedroom" /\ packed[b + 1].type = "bathroom"
            /\ \A j \in (b + 1)..Len(packed) :
                  /\ packed[j].type = "bathroom"
                  /\ IsShare(packed[j].dimensions.width, 4, 5, houseDimensions.width, n)
                  /\ IF RowFull(packed[j - 1], houseDimensions, n)
                     THEN FirstOfNextRow(packed[j], packed[j - 1], houseDimensions, n)
                     ELSE NextInRow(packed[j], packed[j - 1], houseDimensions, n)

\* four bedrooms and two bathrooms on a 16 x 24 footprint (n = 3):
\* bedroom-4 opens the row z = 20 and the bathrooms follow it in that row
\* at x = 16/3 and x = 32/3
C16_Witness ==
    /\ RoomsGenerated
    /\ formData.bedrooms = 4 /\ formData.bathrooms = 2
    /\ houseDimensions.width = R(16) /\ houseDimensions.length = R(24)
    /\ Packed(rooms)[4].position = [x |-> R(0), y |-> R(0), z |-> R(20)]
    /\ Packed(rooms)[5].id = "bathroom-1"
    /\ Packed(rooms)[5].position = [x |-> Rat(16, 3), y |-> R(0), z |-> R(20)]
    /\ Packed(rooms)[6].position = [x |-> Rat(32, 3), y |-> R(0), z |-> R(20)]

(***************************************************************************)
(* Properties of addFurniture (SpecRooms, Spec).                           *)
(***************************************************************************)
\* the statement  const furnishedRooms = this.addFurniture(...)  has run
FurnitureAdded == DirectCall /\ pc \in {"generateTourWaypoints", "return", "done"}
Items(room) == {room.furniture[k] : k \in 1..Len(room.furniture)}

\* C17: after addFurniture every input room still has its empty furniture
\* list; the returned list has the length and order of the input, each
\* output room equal to its input room in id, name, type, position and
\* dimensions; no furniture item of one output room is an item of another.
C17_AddFurnitureFrame ==
    FurnitureAdded =>
        /\ \A i \in 1..Len(rooms) : rooms[i].furniture = <<>>
        /\ Len(furnishedRooms) = Len(rooms)
        /\ \A i \in 1..Len(rooms) :
              /\ DOMAIN furnishedRooms[i] = DOMAIN rooms[i]
              /\ \A f \in DOMAIN rooms[i] \ {"furniture"} : furnishedRooms[i][f] = rooms[i][f]
        /\ \A i, j \in 1..Len(furnishedRooms) :
              i # j => Items(furnishedRooms[i]) \cap Items(furnishedRooms[j]) = {}

\* a furnished house of three kitchens and five bathrooms: kitchen and
\* bathroom sinks are distinct items, the hallway is still the last room
C17_Witness ==
    /\ FurnitureAdded
    /\ formData.kitchens = 3 /\ formData.bathrooms = 5 /\ formData.bedrooms = 10
    /\ Len(furnishedRooms) = Len(rooms)
    /\ furnishedRooms[2].furniture[4].id = "sink-kitchen-1"
    /\ furnishedRooms[Len(furnishedRooms)].type = "hallway"
    /\ furnishedRooms[Len(furnishedRooms)].furniture = <<>>

\* the number of items of the template of a room category
TemplateSize(type) ==
    CASE type = "living" -> 5 [] type = "bedroom" -> 4 [] type = "kitchen" -> 5
      [] type = "bathroom" -> 4 [] type = "dining" -> 2 [] OTHER -> 0

\* C18: the number of items addFurniture attaches is fixed by the room's
\* category alone: 5 for the living room, 4 for a bedroom, 5 for a kitchen,
\* 4 for a bathroom, 2 for the dining room (each between 2 and 5) and none
\* for the hallway, whatever the room's size and position.
C18_FurnitureCounts ==
    FurnitureAdded =>
        \A i \in 1..Len(furnishedRooms) :
            /\ Len(furnishedRooms[i].furniture) = TemplateSize(furnishedRooms[i].type)
            /\ furnishedRooms[i].type \in {"living", "bedroom", "kitchen", "bathroom", "dining"}
                  => Len(furnishedRooms[i].furniture) \in 2..5
            /\ furnishedRooms[i].type = "hallway" => furnishedRooms[i].furniture = <<>>

\* a furnished house on the 6 x 35 footprint, ten bedrooms (n = 4): the
\* kitchen is 1.5 wide and has its five items, the dining room has two
C18_Witness ==
    /\ FurnitureAdded
    /\ houseDimensions.width = R(6) /\ formData.bedrooms = 10 /\ formData.kitchens = 1
    /\ furnishedRooms[2].type = "kitchen" /\ furnishedRooms[2].dimensions.width = Rat(3, 2)
    /\ Len(furnishedRooms[2].furniture) = 5
    /\ furnishedRooms[3].type = "dining" /\ Len(furnishedRooms[3].furniture) = 2

\* C19: every room of a generated house that receives furniture carries 3
\* to 5 furniture items.
C19_ThreeToFiveItems ==
    FurnitureAdded =>
        \A i \in 1..Len(furnishedRooms) :
            furnishedRooms[i].furniture # <<>> => Len(furnishedRooms[i].furniture) \in 3..5

OtherLocation(l) == IF l = "city" THEN "village" ELSE "city"

\* C20: the furniture addFurniture attaches depends on the location style:
\* the rooms of a house furnished for its location differ, in at least one
\* furniture descriptor, from the same rooms furnished for the other
\* location.
C20_StyleDrivenFurniture ==
    FurnitureAdded =>
        furnishedRooms # addFurniture(rooms, OtherLocation(formData.locationType))

(***************************************************************************)
(* Geometry of the tour (Spec).                                            *)
(***************************************************************************)
\* c is the middle of the interval from lo to lo + size
IsMiddle(c, lo, size) == RMul(c, R(2)) = RAdd(RMul(lo, R(2)), size)
LooksAtHouseCentre(w, dims) ==
    /\ IsMiddle(w.lookAt[1], R(0), dims.width)
    /\ IsMiddle(w.lookAt[2], R(0), dims.height)
    /\ IsMiddle(w.lookAt[3], R(0), dims.length)

\* C21: every interior waypoint stands at the centre of its room (x = room
\* x + width/2, y = room height/2, z = room z + length/2), looks at its own
\* position and lasts 2; the first waypoint lasts 3 and the last 2, and
\* both look at (width/2, height/2, length/2) of the house.
C21_WaypointGeometry ==
    TourGenerated =>
        /\ \A j \in 1..Len(NonHallway(furnishedRooms)) :
              LET w == tourWaypoints[j + 1]
                  r == NonHallway(furnishedRooms)[j]
              IN  /\ IsMiddle(w.position[1], r.position.x, r.dimensions.width)
                  /\ IsMiddle(w.position[2], R(0), r.dimensions.height)
                  /\ IsMiddle(w.position[3], r.position.z, r.dimensions.length)
                  /\ w.lookAt = w.position
                  /\ w.duration = 2
        /\ tourWaypoints[1].duration = 3
        /\ tourWaypoints[Len(tourWaypoints)].duration = 2
        /\ LooksAtHouseCentre(tourWaypoints[1], houseDimensions)
        /\ LooksAtHouseCentre(tourWaypoints[Len(tourWaypoints)], houseDimensions)

\* the tour of a single-storey house on a 16 x 24 footprint with two
\* bedrooms: the 12 x 18 living room is seen from (6, 1.5, 9), the house
\* from outside looking at (8, 1.5, 12)
C21_Witness ==
    /\ DirectCall /\ pc = "done"
    /\ formData.bedrooms = 2 /\ formData.houseType = "single"
    /\ houseDimensions.width = R(16) /\ houseDimensions.length = R(24)
    /\ tourWaypoints[2].position = <<R(6), Rat(3, 2), R(9)>>
    /\ tourWaypoints[2].lookAt = <<R(6), Rat(3, 2), R(9)>>
    /\ tourWaypoints[1].lookAt = <<R(8), Rat(3, 2), R(12)>>

(***************************************************************************)
(* The validating route (Spec).                                            *)
(***************************************************************************)
\* the body carries a number for this count, and it is not in lo..hi
OutOfRange(j, lo, hi) == j.t = "number" /\ (j.v < lo \/ j.v > hi)
\* a request to the validating route, answered, whose plot size passed
PlotAccepted ==
    /\ entry = "POST" /\ pc = "responded" /\ body.t = "object"
    /\ IsString(body.plotSize) /\ trim(body.plotSize.v) # <<>>

\* C22: a request to the validating route whose bedrooms value is outside
\* 1..10, whose bathrooms value is outside 1..5 or whose kitchens value is
\* outside 1..3 (0 included) is answered with status 400, success = false
\* and the 'must be between' message of the first such count, and with
\* nothing generated (no layout, no waypoints).
C22_RejectsOutOfRange ==
    PlotAccepted =>
        /\ OutOfRange(body.bedrooms, 1, 10)
              => response = [status |-> 400, success |-> FALSE,
                             error |-> "Bedrooms must be between 1 and 10"]
        /\ (~OutOfRange(body.bedrooms, 1, 10) /\ OutOfRange(body.bathrooms, 1, 5))
              => response = [status |-> 400, success |-> FALSE,
                             error |-> "Bathrooms must be between 1 and 5"]
        /\ ( /\ ~OutOfRange(body.bedrooms, 1, 10) /\ ~OutOfRange(body.bathrooms, 1, 5)
              /\ OutOfRange(body.kitchens, 1, 3) )
              => response = [status |-> 400, success |-> FALSE,
                             error |-> "Kitchens must be between 1 and 3"]

(***************************************************************************)
(* Overlap and the dining room (SpecRooms).                                *)
(***************************************************************************)
\* the interiors of the plan rectangles of two rooms meet
Overlap(p, q) ==
    /\ RLt(p.position.x, RightEdge(q)) /\ RLt(q.position.x, RightEdge(p))
    /\ RLt(p.position.z, FarEdge(q)) /\ RLt(q.position.z, FarEdge(p))
PositiveHouse == houseDimensions.width.n > 0 /\ houseDimensions.length.n > 0

\* C23: for a positive house width and length and any counts, no two rooms
\* generateRooms emits overlap in plan, the hallway (z from -2 to 0)
\* included; they share edges at most.
C23_NoOverlap ==
    (RoomsGenerated /\ PositiveHouse) =>
        \A i, j \in 1..Len(rooms) : i # j => ~Overlap(rooms[i], rooms[j])

\* ten bedrooms, five bathrooms and three kitchens on a 16 x 24 footprint:
\* kitchen-1 starts on the right edge of the living room, bedroom-1 on its
\* far edge, the hallway ends on its near edge
C23_Witness ==
    /\ RoomsGenerated
    /\ formData.bedrooms = 10 /\ formData.bathrooms = 5 /\ formData.kitchens = 3
    /\ houseDimensions.width = R(16) /\ houseDimensions.length = R(24)
    /\ rooms[2].position.x = RightEdge(rooms[1])
    /\ \E i \in 1..Len(rooms) :
          rooms[i].id = "bedroom-1" /\ rooms[i].position.z = FarEdge(rooms[1])
    /\ FarEdge(rooms[Len(rooms)]) = rooms[1].position.z

\* C24: with a positive house width, bedrooms in 1..10 and kitchens in
\* 1..3, a dining room is generated exactly when kitchens = 1 and bedrooms
\* >= 8, whatever the plot.
C24_DiningOnlyLargeHouses ==
    ( /\ RoomsGenerated /\ houseDimensions.width.n > 0
      /\ formData.bedrooms \in 1..10 /\ formData.kitchens \in 1..3 ) =>
        ((\E i \in 1..Len(rooms) : rooms[i].type = "dining")
            <=> (formData.kitchens = 1 /\ formData.bedrooms >= 8))

\* eight bedrooms and one kitchen on the 25 x 35 footprint: n = 4, and the
\* dining room stands at 2.5 units
C24_Witness ==
    /\ RoomsGenerated
    /\ formData.bedrooms = 8 /\ formData.kitchens = 1
    /\ houseDimensions.width = R(25) /\ houseDimensions.length = R(35)
    /\ rooms[3].type = "dining" /\ rooms[3].position.x = Rat(125, 8)

(***************************************************************************)
(* The form's plot-size validation against the generator (SpecParse).      *)
(***************************************************************************)
\* /^\d+$/
matchesDigits(s) == s # <<>> /\ DigitRun(s) = Len(s)
\* validateForm leaves errors.plotSize unset: the text is not blank and,
\* lower-cased and without whitespace, matches /^\d+x\d+$|^\d+$/
validateFormPlotSize(raw) ==
    /\ trim(raw) # <<>>
    /\ LET size == stripWhitespace(toLowerCase(raw))
       IN  \/ matchesDigits(size)
           \/ \E i \in 1..Len(size) :
                 /\ size[i] = "x"
                 /\ matchesDigits(SubSeq(size, 1, i - 1))
                 /\ matchesDigits(SubSeq(size, i + 1, Len(size)))

\* the numbers written in an accepted plot size
FaceValue(size) ==
    IF includes(size, "x")
    THEN [width |-> DecimalValue(LeftSide(size)), length |-> DecimalValue(RightSide(size))]
    ELSE [width |-> DecimalValue(size), length |-> DecimalValue(size)]

\* C25: every plot size validateForm accepts is parsed to the numbers
\* written in it, without a default, and gives a house of strictly positive
\* width and length.
C25_AcceptedPlotsAtFaceValue ==
    (pc = "generateRooms" /\ validateFormPlotSize(formData.plotSize.v)) =>
        /\ plotSize = FaceValue(Normalized)
        /\ houseDimensions.width.n > 0
        /\ houseDimensions.length.n > 0

(***************************************************************************)
(* HomePage: handleFormSubmit and handleReset.  page holds the five        *)
(* useState values; pc tells whether a submission awaits its fetch.        *)
(***************************************************************************)
\* an Error with its message
Msg(m) == [message |-> m]

\* the client-side validation at the head of handleFormSubmit: the message
\* of the Error it throws, Null when it passes
clientValidation(fd) ==
    IF ~IsString(fd.plotSize) \/ trim(fd.plotSize.v) = <<>>
    THEN Msg("Plot size is required")
    ELSE IF fd.bedrooms < 1 \/ fd.bedrooms > 10
    THEN Msg("Number of bedrooms must be between 1 and 10")
    ELSE IF fd.bathrooms < 1 \/ fd.bathrooms > 5
    THEN Msg("Number of bathrooms must be between 1 and 5")
    ELSE IF fd.kitchens < 1 \/ fd.kitchens > 3
    THEN Msg("Number of kitchens must be between 1 and 3")
    ELSE Null

\* messages of the model that contain 'fetch' / 'timeout'
IncludesFetch(m) == m \in {"Failed to fetch"}
IncludesTimeout(m) == m \in {"Request timeout"}
\* the message the catch block shows for an Error with message m
friendlyMessage(m) ==
    IF IncludesFetch(m) THEN "Network error - please check your internet connection"
    ELSE IF IncludesTimeout(m) THEN "Request timed out - please try again"
    ELSE m

\* a string field of a JSON object used as  field || fallback
OrText(j, fallback) == IF j.t = "string" /\ j.v # "" THEN j.v ELSE fallback

\* the branch  if (!response.ok)  : the message of the Error it throws
notOkMessage(r) ==
    IF r.body.t = "json" /\ r.body.data.t = "object"
    THEN OrText(r.body.data.error, "Server error (" \o ToString(r.status) \o ")")
    ELSE IF r.body.t = "json" /\ r.body.data.t = "number"
    THEN "Server error (" \o ToString(r.status) \o ")"
    ELSE IF r.statusText # "" THEN r.statusText
    ELSE "Server error (" \o ToString(r.status) \o ")"

\* the statements after  await fetch(...)  up to the layout checks: the
\* message of the Error thrown for the outcome r of the fetch, Null when
\* every check passes
responseError(r) ==
    IF r.t = "rejected" THEN Msg(r.message)
    ELSE IF ~r.ok THEN Msg(notOkMessage(r))
    ELSE IF r.body.t = "empty" THEN Msg("Empty response from server")
    ELSE IF r.body.t = "garbage" THEN Msg("Invalid response format from server")
    ELSE IF r.body.data.t # "object" THEN Msg("Invalid response structure")
    ELSE IF ~r.body.data.success
    THEN Msg(OrText(r.body.data.error, "House generation failed"))
    ELSE IF r.body.data.layout.t = "undefined"
    THEN Msg("No house layout received from server")
    ELSE IF r.body.data.layout.t # "object" \/ r.body.data.layout.rooms.t # "array"
    THEN Msg("Invalid house layout structure")
    ELSE Null

\* catch and finally of handleFormSubmit
handleFormSubmitFailed(state, error) ==
    [state EXCEPT !.error = Msg(friendlyMessage(error.message)), !.isLoading = FALSE]

\* handleFormSubmit that shows the viewer for any layout the server sends
handleFormSubmitSettledAnyLayout(state, r) ==
    IF r.t = "response" /\ r.ok /\ r.body.t = "json" /\ r.body.data.t = "object"
       /\ r.body.data.success
    THEN [state EXCEPT !.houseLayout = r.body.data.layout,
                       !.tourWaypoints = IF r.body.data.tourWaypoints.t = "array"
                                         THEN r.body.data.tourWaypoints.v ELSE <<>>,
                       !.showForm = FALSE,
                       !.isLoading = FALSE]
    ELSE handleFormSubmitFailed(state, responseError(r))

\* handleFormSubmit whose setIsLoading(false) follows the try block instead
\* of standing in a finally
handleFormSubmitSettledNoFinally(state, r) ==
    IF responseError(r) # Null
    THEN [state EXCEPT !.error = Msg(friendlyMessage(responseError(r).message))]
    ELSE [state EXCEPT !.houseLayout = r.body.data.layout,
                       !.tourWaypoints = IF r.body.data.tourWaypoints.t = "array"
                                         THEN r.body.data.tourWaypoints.v ELSE <<>>,
                       !.showForm = FALSE,
                       !.isLoading = FALSE]

\* handleFormSubmit from the answer of the fetch to its end
handleFormSubmitSettled(state, r) ==
    IF responseError(r) # Null THEN handleFormSubmitFailed(state, responseError(r))
    ELSE [state EXCEPT !.houseLayout = r.body.data.layout,
                       !.tourWaypoints = IF r.body.data.tourWaypoints.t = "array"
                                         THEN r.body.data.tourWaypoints.v ELSE <<>>,
                       !.showForm = FALSE,
                       !.isLoading = FALSE]

handleReset(state) ==
    [state EXCEPT !.houseLayout = Null, !.tourWaypoints = <<>>, !.error = Null,
                  !.showForm = TRUE]

\* what handleFormSubmit has set when it reaches its try block
handleFormSubmitStarted(state) == [state EXCEPT !.isLoading = TRUE, !.error = Null]

\* HouseFormData handed to handleFormSubmit (the form checks them first;
\* the handler checks again)
PageFormDatas ==
    [plotSize : {JUndef, JStr(Chars(" ")), JStr(Chars("20x30"))},
     houseType : {"single"},
     bedrooms : {0, 2, 11}, bathrooms : {1, 6}, kitchens : {1, 4},
     locationType : {"city"}]

\* the layout of the validating route's answer to the form's defaults, as
\* the JSON object the page receives
ServedLayout ==
    Const(postResponse([t |-> "object", plotSize |-> JStr(Chars("20x30")),
                        houseType |-> "double", bedrooms |-> JNum(1),
                        bathrooms |-> JNum(2), kitchens |-> JNum(3),
                        locationType |-> "village"]),
          LAMBDA answer :
              [data |-> [t |-> "object", success |-> TRUE, error |-> JUndef,
                         layout |-> [t |-> "object",
                                     rooms |-> [t |-> "array", v |-> answer.layout.rooms],
                                     floors |-> answer.layout.floors,
                                     style |-> answer.layout.style],
                         tourWaypoints |-> [t |-> "array", v |-> answer.tourWaypoints]]]).data

\* JSON values a response body can parse to
JsonLayouts ==
    {JUndef, [t |-> "string", v |-> "none"],
     [t |-> "object", rooms |-> JUndef],
     [t |-> "object", rooms |-> [t |-> "string", v |-> "none"]],
     [t |-> "object", rooms |-> [t |-> "array", v |-> <<>>]],
     ServedLayout.layout}
JsonData ==
    {[t |-> "null"], [t |-> "number"]} \cup
    [t : {"object"}, success : BOOLEAN,
     error : {JUndef, [t |-> "string", v |-> "Bedrooms must be between 1 and 10"]},
     layout : JsonLayouts,
     tourWaypoints : {JUndef, ServedLayout.tourWaypoints}]
ResponseBodies == {[t |-> "empty"], [t |-> "garbage"]} \cup {[t |-> "json", data |-> d] : d \in JsonData}

\* what  await fetch('/api/house', ...)  can give: a rejection, or a
\* response of any status with any body
FetchOutcomes ==
    {[t |-> "rejected", message |-> m] : m \in {"Failed to fetch", "Request timeout"}}
    \cup [t : {"response"}, ok : {FALSE}, status : {400, 500},
          statusText : {"", "Bad Request"}, body : ResponseBodies]
    \cup [t : {"response"}, ok : {TRUE}, status : {200}, statusText : {"OK"},
          body : ResponseBodies]

InitPage ==
    /\ entry = "HomePage" /\ pc = "idle"
    /\ page = [isLoading |-> FALSE, houseLayout |-> Null, tourWaypoints |-> <<>>,
               error |-> Null, showForm |-> TRUE]
    /\ viewer = Null
    /\ body = Null /\ formData = Null /\ houseDimensions = Null /\ furnishedRooms = <<>>
    /\ plotSize = Null /\ rooms = <<>> /\ tourWaypoints = <<>>
    /\ result = Null /\ response = Null

\* the form, shown and not disabled, calls onSubmit: handleFormSubmit runs
\* to its catch when the validation throws, to  await fetch  otherwise
HandleFormSubmit ==
    /\ pc = "idle" /\ page.showForm /\ ~page.isLoading
    /\ \E fd \in PageFormDatas :
          /\ formData' = fd
          /\ IF clientValidation(fd) # Null
             THEN /\ page' = handleFormSubmitFailed(handleFormSubmitStarted(page),
                                                    clientValidation(fd))
                  /\ pc' = "idle"
             ELSE /\ page' = handleFormSubmitStarted(page)
                  /\ pc' = "awaitFetch"
    /\ entry' = "handleFormSubmit"
    /\ response' = Null
    /\ UNCHANGED <<viewer, body, plotSize, houseDimensions, rooms, furnishedRooms,
                   tourWaypoints, result>>

\* the fetch settles and handleFormSubmit runs to its end
FetchSettled ==
    /\ pc = "awaitFetch"
    /\ \E r \in FetchOutcomes :
          /\ response' = r
          /\ page' = handleFormSubmitSettled(page, r)
    /\ pc' = "idle"
    /\ UNCHANGED <<viewer, entry, body, formData, plotSize, houseDimensions, rooms,
                   furnishedRooms, tourWaypoints, result>>

\* the 'New Design' button, rendered while houseLayout is set
HandleReset ==
    /\ page.houseLayout # Null
    /\ page' = handleReset(page)
    /\ entry' = "handleReset"
    /\ UNCHANGED <<viewer, pc, body, formData, plotSize, houseDimensions, rooms,
                   furnishedRooms, tourWaypoints, result, response>>

NextPage == HandleFormSubmit \/ FetchSettled \/ HandleReset

SpecPage == InitPage /\ [][NextPage]_vars

\* ---------------------------------------------------------------------
\* The page: what the viewer is given, and what 'New Design' restores
\* ---------------------------------------------------------------------

\* a submission succeeds exactly when the fetch gives an ok response whose
\* body is a JSON object with a true success and a layout with a rooms array
Succeeds(r) ==
    /\ r.t = "response" /\ r.ok
    /\ r.body.t = "json" /\ r.body.data.t = "object"
    /\ r.body.data.success
    /\ r.body.data.layout.t = "object"
    /\ r.body.data.layout.rooms.t = "array"

HasRoomsArray(layout) ==
    /\ layout # Null
    /\ layout.t = "object"
    /\ layout.rooms.t = "array"

\* C26: whenever the form is hidden, which is when the viewer is rendered,
\* houseLayout is a layout object whose rooms is an array; and handleReset
\* leaves houseLayout null, tourWaypoints empty, error null and the form
\* shown.
C26_ViewerHasLayout ==
    /\ ~page.showForm => HasRoomsArray(page.houseLayout)
    /\ entry = "handleReset"
          => /\ page.houseLayout = Null
             /\ page.tourWaypoints = <<>>
             /\ page.error = Null
             /\ page.showForm

\* the viewer was shown with the rooms the route served, and 'New Design'
\* has brought the form back
C26_Witness ==
    /\ entry = "handleReset"
    /\ Succeeds(response)
    /\ Len(response.body.data.layout.rooms.v) > 0
    /\ page.houseLayout = Null /\ page.showForm

EndsAsFailure ==
    /\ ~page'.isLoading
    /\ page'.error # Null
    /\ page'.showForm
    /\ page'.houseLayout = page.houseLayout
    /\ page'.tourWaypoints = page.tourWaypoints

\* C27: every submission ends with isLoading false; a failed one (client
\* validation, rejected fetch, non-ok status, empty or unparseable body,
\* success false, missing or malformed layout) ends with an error set, the
\* form still shown and houseLayout and tourWaypoints as they were; a
\* successful one ends with error null.
C27_SubmissionOutcome ==
    [][/\ (pc = "idle" /\ pc' = "idle" /\ entry' = "handleFormSubmit") => EndsAsFailure
       /\ (pc = "awaitFetch" /\ pc' = "idle")
             => IF Succeeds(response')
                THEN ~page'.isLoading /\ page'.error = Null
                ELSE EndsAsFailure]_vars

\* a submission has failed on an ok response whose layout has no rooms array
C27_Witness ==
    /\ pc = "idle" /\ response # Null
    /\ response.t = "response" /\ response.ok /\ ~Succeeds(response)
    /\ page.error = Msg("Invalid house layout structure")
    /\ ~page.isLoading /\ page.showForm

(***************************************************************************)
(* The viewer's auto tour (House3DViewer and AutoTourCamera).              *)
(*                                                                         *)
(* viewer holds the three useState values of House3DViewer, the props the  *)
(* mounted AutoTourCamera was last rendered with (camera, Null while it is *)
(* not mounted), the number of frame callbacks run since that render, the  *)
(* number of onTourComplete calls since the tour was started, and the sum  *)
(* of delta / duration spent on the current waypoint.  A waypoint is       *)
(* modelled by its duration.  A click is a discrete event and is rendered  *)
(* before the next frame; the setters called from a frame callback are     *)
(* rendered by a later task, so a further frame may run with the props of  *)
(* the previous render.                                                    *)
(***************************************************************************)
MaxWaypoints == 3
MaxFramesPerRender == 2

\* durations of the generator's waypoints (overview 3, rooms 2), in seconds
Durations == {2, 3}
\* time between two frames, in seconds
Deltas == {1, 3}

SeqsUpTo(S, n) == UNION {[1..k -> S] : k \in 0..n}
TourLists == SeqsUpTo(Durations, MaxWaypoints)

\* an onComplete prop that ends the tour without telling the page
onCompleteSilent(v) == [v EXCEPT !.isAutoTour = FALSE]

handleAutoTour(v) ==
    [v EXCEPT !.isAutoTour = TRUE, !.currentTourIndex = 0, !.tourProgress = Rat(0, 1)]

handleStopTour(v) ==
    [v EXCEPT !.isAutoTour = FALSE, !.currentTourIndex = 0, !.tourProgress = Rat(0, 1)]

\* the onComplete prop: setIsAutoTour(false); onTourComplete?.()
onComplete(v) == [v EXCEPT !.isAutoTour = FALSE, !.completed = @ + 1]

\* newProgress of a frame callback; waypoints[currentIndex] is the
\* (currentIndex + 1)-th duration of the list
newProgress(v, delta) ==
    RAdd(v.camera.progress, Rat(delta, v.waypoints[v.camera.currentIndex + 1]))

\* the useFrame callback of the mounted AutoTourCamera, run with the props
\* of its last render
useFrame(v, delta) ==
    IF v.camera.currentIndex >= Len(v.waypoints)
    THEN onComplete(v)
    ELSE Const(newProgress(v, delta), LAMBDA np :
             IF RLe(Rat(1, 1), np)
             THEN IF v.camera.currentIndex < Len(v.waypoints) - 1
                  THEN [v EXCEPT !.currentTourIndex = v.camera.currentIndex + 1,
                                 !.tourProgress = Rat(0, 1)]
                  ELSE onComplete([v EXCEPT !.tourProgress = np])
             ELSE [v EXCEPT !.tourProgress = np])

\* House3DViewer renders: AutoTourCamera is mounted with the current index
\* and progress while isAutoTour, unmounted otherwise
render(v) ==
    [v EXCEPT !.camera = IF v.isAutoTour
                         THEN [currentIndex |-> v.currentTourIndex,
                               progress |-> v.tourProgress]
                         ELSE Null,
              !.frames = 0]

\* the time spent on the current waypoint after a frame of length delta that
\* takes the viewer from v to w
elapsedAfter(v, w, delta) ==
    IF w.currentTourIndex # v.currentTourIndex THEN Rat(0, 1)
    ELSE IF v.camera.currentIndex = v.currentTourIndex
            /\ v.camera.currentIndex < Len(v.waypoints)
    THEN RAdd(v.elapsed, Rat(delta, v.waypoints[v.camera.currentIndex + 1]))
    ELSE v.elapsed

InitAutoTour ==
    /\ entry = "House3DViewer" /\ pc = "idle"
    /\ \E list \in TourLists :
          viewer = [waypoints |-> list, isAutoTour |-> FALSE, currentTourIndex |-> 0,
                    tourProgress |-> Rat(0, 1), camera |-> Null, frames |-> 0,
                    completed |-> 0, elapsed |-> Rat(0, 1)]
    /\ page = Null
    /\ body = Null /\ formData = Null /\ houseDimensions = Null /\ furnishedRooms = <<>>
    /\ plotSize = Null /\ rooms = <<>> /\ tourWaypoints = <<>>
    /\ result = Null /\ response = Null

\* a click on the button while it is rendered as 'Auto Tour'
HandleAutoTour ==
    /\ viewer.camera = Null
    /\ viewer' = render([handleAutoTour(viewer) EXCEPT !.completed = 0,
                                                       !.elapsed = Rat(0, 1)])
    /\ entry' = "handleAutoTour"
    /\ UNCHANGED <<page, pc, body, formData, plotSize, houseDimensions, rooms,
                   furnishedRooms, tourWaypoints, result, response>>

\* a click on the button while it is rendered as 'Stop Tour'
HandleStopTour ==
    /\ viewer.camera # Null
    /\ viewer' = render([handleStopTour(viewer) EXCEPT !.elapsed = Rat(0, 1)])
    /\ entry' = "handleStopTour"
    /\ UNCHANGED <<page, pc, body, formData, plotSize, houseDimensions, rooms,
                   furnishedRooms, tourWaypoints, result, response>>

\* an animation frame: the callback of the mounted AutoTourCamera runs
UseFrame ==
    /\ viewer.camera # Null /\ viewer.frames < MaxFramesPerRender
    /\ \E delta \in Deltas :
          /\ viewer' = [useFrame(viewer, delta) EXCEPT
                            !.frames = @ + 1,
                            !.elapsed = elapsedAfter(viewer, useFrame(viewer, delta), delta)]
          /\ result' = [delta |-> delta]
    /\ entry' = "useFrame"
    /\ UNCHANGED <<page, pc, body, formData, plotSize, houseDimensions, rooms,
                   furnishedRooms, tourWaypoints, response>>

\* the render that follows the setters called from frame callbacks
Render ==
    /\ viewer.frames > 0
    /\ viewer' = render(viewer)
    /\ entry' = "render"
    /\ UNCHANGED <<page, pc, body, formData, plotSize, houseDimensions, rooms,
                   furnishedRooms, tourWaypoints, result, response>>

NextAutoTour == HandleAutoTour \/ HandleStopTour \/ UseFrame \/ Render

SpecAutoTour == InitAutoTour /\ [][NextAutoTour]_vars

\* frames keep arriving and pending renders are carried out
SpecAutoTourFair == SpecAutoTour /\ WF_vars(UseFrame) /\ WF_vars(Render)

\* ---------------------------------------------------------------------
\* The tour visits the waypoints in list order
\* ---------------------------------------------------------------------

IndexInRange(v) == v.currentTourIndex \in 0..(Len(v.waypoints) - 1)

\* the frame that has just run moved the index on by one, at a moment when
\* its newProgress, and with it the time spent on the waypoint, had reached 1
AdvancedByFrame ==
    /\ entry' = "useFrame"
    /\ viewer'.currentTourIndex = viewer.currentTourIndex + 1
    /\ RLe(Rat(1, 1), newProgress(viewer, result'.delta))
    /\ RLe(Rat(1, 1), RAdd(viewer.elapsed,
                           Rat(result'.delta, viewer.waypoints[viewer.currentTourIndex + 1])))

\* C28: while a tour runs over a non-empty list, currentTourIndex is within
\* 0..waypoints.length-1; it changes only by +1, in a frame in which the
\* progress of the current waypoint has reached 1 (and by the reset to 0 of
\* handleStopTour); and handleAutoTour always starts at index 0 with
\* progress 0.
C28_TourIndexInOrder ==
    [][/\ viewer'.isAutoTour /\ viewer'.waypoints # <<>> => IndexInRange(viewer')
       /\ viewer'.currentTourIndex # viewer.currentTourIndex
             => \/ AdvancedByFrame
                \/ entry' \in {"handleAutoTour", "handleStopTour"}
                      /\ viewer'.currentTourIndex = 0
       /\ entry' = "handleAutoTour"
             => /\ viewer'.isAutoTour
                /\ viewer'.currentTourIndex = 0
                /\ viewer'.tourProgress = Rat(0, 1)
                /\ viewer'.camera = [currentIndex |-> 0, progress |-> Rat(0, 1)]]_vars

\* ---------------------------------------------------------------------
\* A tour that is not stopped comes to its end
\* ---------------------------------------------------------------------

TourOver == ~viewer.isAutoTour /\ viewer.completed > 0
Stopped == ~viewer.isAutoTour /\ entry = "handleStopTour"

\* C29: with frames arriving, positive deltas and positive finite durations,
\* a started tour leads to isAutoTour false with onTourComplete called,
\* unless the user stops it; over an empty list the first frame ends it.
C29_TourFinishes ==
    /\ viewer.isAutoTour ~> (TourOver \/ Stopped)
    /\ [][entry' = "useFrame" /\ viewer.waypoints = <<>> => /\ ~viewer'.isAutoTour
                                                            /\ viewer'.completed > 0]_vars

\* a tour over three waypoints has run to its end and the camera is unmounted
C29_Witness ==
    /\ TourOver
    /\ entry = "render"
    /\ Len(viewer.waypoints) = 3
    /\ viewer.currentTourIndex = 2
    /\ viewer.camera = Null

\* ---------------------------------------------------------------------
\* Frame callbacks that run with the props of an earlier render
\* ---------------------------------------------------------------------

\* the tour has been ended by a frame callback, not by the user
RunToItsEnd == ~viewer.isAutoTour /\ entry \in {"useFrame", "render"}

\* after handleStopTour no AutoTourCamera is mounted, so that no frame
\* callback is left that could move the index or call onTourComplete
NoFrameAfterStop == entry = "handleStopTour" => viewer.camera = Null

\* C30: a tour started with handleAutoTour and run to its end calls
\* onTourComplete exactly once, also when several frame callbacks run with
\* the props of the same render; and after the user has stopped a tour no
\* frame callback advances the index or calls onTourComplete.
C30_CompletedExactlyOnce ==
    /\ viewer.completed <= 1
    /\ RunToItsEnd => viewer.completed = 1
    /\ NoFrameAfterStop

====
